---- MODULE Spec2Model ----
(***************************************************************************)
(* A model of the Derecho core: the multicast engine (MulticastGroup), the *)
(* ragged-edge cleanup and the view manager (ViewManager).                  *)
(*                                                                         *)
(* The shared status table is modelled per column group.  `sst` holds the  *)
(* multicast columns of every member's own row, `cache[n][r]` is member    *)
(* n's local copy of row r, written by r's put unless n froze the row or r   *)
(* stopped before the write to n was posted.                               *)
(***************************************************************************)
EXTENDS Integers, Sequences, FiniteSets, TLC

(* ------------------------------ bounds -------------------------------- *)
\* highest number of messages (application or NULL) one sender originates
MaxIndex == 1
\* number of members that may crash in the multicast model
MaxCrash == 1

(* --------------------- configuration of the shard --------------------- *)
\* DerechoParams::window_size
window_size == 2
\* ranks of the members of the one shard of the multicast model
Node == {0, 1, 2}
\* SubgroupSettings::senders: the members whose is_sender flag is set;
\* the sender rank of such a member equals its shard rank
Senders == {0, 1}
num_shard_senders == Cardinality(Senders)
\* SubgroupSettings::sender_rank
sender_rank(n) == IF n \in Senders THEN n ELSE -1

VARIABLES
    alive,                      \* alive[n]: the process has not crashed
    sst,                        \* sst[n]: multicast columns of n's own row
    cache,                      \* cache[n][r]: n's local copy of row r
    stopped,                    \* stopped[n][r]: n froze row r (SST::freeze)
    failed,                     \* failed[n]: curr_view->failed at n (a set of ranks)
    thread_shutdown,            \* MulticastGroup::thread_shutdown (wedged)
    mcpc,                       \* position of n in the epoch termination
    future_message_indices,
    received_intervals,
    num_received_sst,
    locally_stable_rdmc_messages,
    locally_stable_sst_messages,
    sent,                       \* sent[s]: messages sender s originated, by index
    rdmc_sent,                  \* number of RDMC messages of s handed to rdmc::send
    rdmc_got,                   \* rdmc_got[n][s]: RDMC messages of s completed at n
    change_proposed,            \* a membership change is pending in this view
    out_of_range,               \* deliver_messages_upto threw std::out_of_range
    max_applied,                \* the max_received_by_sender vector n applied
    next_members,               \* next_view->members at n, once computed
    delivered                   \* delivered[n]: sequence of <<seq, how>> n delivered

mcvars == <<alive, sst, cache, stopped, failed, thread_shutdown, mcpc,
            future_message_indices, received_intervals, num_received_sst,
            locally_stable_rdmc_messages, locally_stable_sst_messages, sent,
            rdmc_sent, rdmc_got, change_proposed, out_of_range, max_applied,
            next_members, delivered>>

(* --------------------- the view manager's state ----------------------- *)
VARIABLES
    gpc,                        \* where the process is: "out", "asked", "accepted"
                                \* (a joiner), "run", "barrier", "handshake", "gone"
    curr_view,                  \* ViewManager::curr_view
    next_view,                  \* ViewManager::next_view
    gsst,                       \* gsst[n]: the membership columns of n's own row
    prev_row,                   \* n's row in the SST of the view it left last
    last_suspected,             \* ViewManager::last_suspected
    handles,                    \* the predicates n has registered
    retry_base,                 \* curr_num_committed captured by retry_next_view
    after_commit,               \* leader_commit_change fired in this pass
    follower_shard,             \* follower_subgroups_and_shards is not empty
    pending_join_sockets,
    proposed_join_sockets,
    min_members,                \* members a view needs to be adequately provisioned
    installed                   \* installed[n]: the views n installed, in order

gvars == <<gpc, curr_view, next_view, gsst, prev_row, last_suspected, handles,
           retry_base, after_commit, follower_shard, pending_join_sockets,
           proposed_join_sockets, min_members, installed>>

(* ------------------ the partition rule on its own --------------------- *)
VARIABLES
    p_num_members,              \* Vc.num_members
    p_num_left,                 \* rows whose rip flag is set
    p_rip,                      \* rip[myRank]
    p_num_failed,               \* Vc.num_failed
    p_thrown                    \* new_suspicion threw the partition exception

pvars == <<p_num_members, p_num_left, p_rip, p_num_failed, p_thrown>>

(* ---------- flow control of a subgroup in UNORDERED mode -------------- *)
VARIABLES
    mode,                       \* SubgroupSettings::mode of the subgroup looked at
    u_sent,                     \* transports of the messages the sender originated
    u_rdmc_sent,                \* large messages handed to rdmc::send
    u_got,                      \* u_got[m][tr]: messages m received on transport tr
    u_ri,                       \* u_ri[m]: received_intervals of m for the sender
    u_nr,                       \* u_nr[m]: num_received of the sender in m's own row
    u_seen                      \* u_seen[m]: the sender's copy of u_nr[m]

uvars == <<mode, u_sent, u_rdmc_sent, u_got, u_ri, u_nr, u_seen>>

(* ------------- the multicast engine built for the next view ----------- *)
VARIABLES
    new_pending_sends           \* new_pending_sends[n]: pending_sends of the new
                                \* engine at n, the old index of each message

rvars == <<new_pending_sends>>

(* ------------- the upcalls of delivery at one shard member ------------ *)
VARIABLES
    d_vid,                      \* sst.vid[member_index]: the vid of the member's view
    d_joined,                   \* the vid of the view in which the member joined
    d_stability,                \* callbacks.global_stability_callback is set
    d_msgs,                     \* the messages that became locally stable in this
                                \* view; the one at position k has sequence number k - 1
    d_delivered_num,            \* sst.delivered_num[member_index][subgroup_num]
    d_upto,                     \* the bound the last delivery ran to: min_stable_num
                                \* or max_seq_num
    d_log,                      \* the upcalls of the last delivery, in call order
    d_versions,                 \* every assigned_version, in delivery order
    d_phase                     \* "running", "wedged" or "cleaned"

dvars == <<d_vid, d_joined, d_stability, d_msgs, d_delivered_num, d_upto, d_log,
           d_versions, d_phase>>

(* ---------------- the first view: leader and joiners ------------------ *)
VARIABLES
    s_min,                      \* members the first view needs to be adequately provisioned
    s_view,                     \* curr_view->members of the leader in await_first_view
    s_waiting,                  \* the ids in waiting_join_sockets
    s_sent,                     \* members_sent_view
    s_pc,                       \* the leader is at "accept", at "send" or has "decided"
    s_alive,                    \* the joining processes that have not crashed
    s_out,                      \* s_out[p]: what the leader wrote to the socket of p
    s_read,                     \* s_read[p]: how much of it p has read
    s_jpc,                      \* s_jpc[p]: where p is in receive_configuration
    s_jview,                    \* s_jview[p]: curr_view->members of p
    s_removed                   \* the joiners a send to which failed

svars == <<s_min, s_view, s_waiting, s_sent, s_pc, s_alive, s_out, s_read, s_jpc,
           s_jview, s_removed>>

(* ---------------- join requests at the leader of a view --------------- *)
VARIABLES
    j_view,                     \* curr_view of the leader
    j_row,                      \* the leader's row of the SST
    j_acked,                    \* the least num_acked over the members of the view
    j_pending,                  \* pending_join_sockets: the clients, oldest first
    j_proposed,                 \* proposed_join_sockets
    j_client,                   \* j_client[c]: what became of client c
    j_leader                    \* "run", or "gone" once an exception left a trigger

jvars == <<j_view, j_row, j_acked, j_pending, j_proposed, j_client, j_leader>>

(* ---------------- graceful leaves as the other members see them ------- *)
VARIABLES
    l_num_members,              \* Vc.num_members of the view
    l_left,                     \* the members that called leave()
    l_suspected,                \* l_suspected[p]: the leavers whose suspected flag p sees
    l_rip,                      \* l_rip[p]: the leavers whose rip flag p sees
    l_last_suspected,           \* l_last_suspected[p]: the members p marked failed
    l_thrown                    \* the members that threw the partition exception

lvars == <<l_num_members, l_left, l_suspected, l_rip, l_last_suspected, l_thrown>>

(* ---------------- one sender's calls of send() ------------------------ *)
VARIABLES
    n_pc,                       \* "idle", or "loop": a thread is inside the while(!buf) of send()
    n_payload,                  \* payload_size of the call in progress
    n_future_message_indices,   \* the index the next message gets
    n_free_message_buffers,     \* how many message buffers are free
    n_next_sends,               \* the message being built, or NoMsg
    n_pending_sends,            \* the queue of the sender thread
    n_pending_sst_sends,        \* a ring slot is being filled
    n_medium,                   \* n_medium[i]: TRUE when index i went out by RDMC
    n_delivered_num,            \* the last index delivered at every member
    n_thread_shutdown,          \* thread_shutdown
    n_returned                  \* what the calls returned, in order

nvars == <<n_pc, n_payload, n_future_message_indices, n_free_message_buffers,
           n_next_sends, n_pending_sends, n_pending_sst_sends, n_medium,
           n_delivered_num, n_thread_shutdown, n_returned>>

(* ---------------- the epoch termination of one member ----------------- *)
VARIABLES
    k_pc,                       \* where the predicate thread is in the epoch termination
    k_write_lock,               \* the predicate thread holds view_mutex as a writer
    k_reader,                   \* an application thread: "out", "waiting" for or "holding" the read lock
    k_vid,                      \* curr_view->vid
    k_mode,                     \* k_mode[g]: the mode of subgroup g
    k_failed,                   \* the shard members marked failed in curr_view
    k_delivered_num,            \* k_delivered_num[g]: delivered_num of the local row
    k_persisted_num             \* k_persisted_num[m][g]: persisted_num of member m's row

kvars == <<k_pc, k_write_lock, k_reader, k_vid, k_mode, k_failed,
           k_delivered_num, k_persisted_num>>

(* ---------------- the members of a total restart ----------------------- *)
VARIABLES
    t_vid,                      \* the vid of the view the group crashed in
    t_logged_ragged_trim,       \* [shard -> max_received_by_sender]: the trims the restart leader sent
    t_before,                   \* t_before[sh]: the longest log of shard sh on disk before the restart
    t_log,                      \* t_log[m]: the versions in member m's log
    t_disk_trim,                \* t_disk_trim[m]: the trims in m's ragged_trim files, NoTrim if none
    t_pc                        \* t_pc[m]: "joined", "received", "saved", "truncated", "running"

tvars == <<t_vid, t_logged_ragged_trim, t_before, t_log, t_disk_trim, t_pc>>

(* ---------------- the receipts from one sender, in any order ---------- *)
VARIABLES
    v_received_intervals,       \* received_intervals[num_received_entry]
    v_received,                 \* the indices that arrived
    v_index,                    \* the index of the last call
    v_returned                  \* what the last call of resolve_num_received returned

vvars == <<v_received_intervals, v_received, v_index, v_returned>>

(* ---------------- one call of make_next_view ---------------------------- *)
VARIABLES
    w_pc,                       \* "call", "returned" or "thrown"
    w_curr_view,                \* curr_view, with the endpoints of its members
    w_changes,                  \* gmsSST.changes[myRank]
    w_joiner_ips,               \* gmsSST.joiner_ips[myRank] and the joiner ports
    w_committed_count,          \* num_committed - num_installed of the leader
    w_next_view                 \* the view make_next_view built

wvars == <<w_pc, w_curr_view, w_changes, w_joiner_ips, w_committed_count,
           w_next_view>>

(* ---------------- the ragged trim of one shard, put by put -------------- *)
VARIABLES
    q_pc,                       \* where each member is in its ragged-edge cleanup
    q_row,                      \* each member's own row of the SST
    q_table,                    \* each member's local copy of the rows of the others
    q_wire,                     \* the RDMA writes posted and not yet placed, per pair
    q_failed,                   \* Vc.failed at each member
    q_puts,                     \* the puts of the cleanup the member has posted
    q_leader,                   \* shard_leader_rank of the member's follower cleanup
    q_trim                      \* max_received_indices the member delivered by

qvars == <<q_pc, q_row, q_table, q_wire, q_failed, q_puts, q_leader, q_trim>>

(* ---------------- the rows of the SST and who stores into them ---------- *)
VARIABLES
    e_pc,                       \* "new", "sync" or "run", per member
    e_row,                      \* each member's own row
    e_table,                    \* each member's local copy of the rows of the others
    e_wire                      \* the rows put and not yet placed, per pair

evars == <<e_pc, e_row, e_table, e_wire>>

(* ---------------- ViewManager::send across a view change ---------------- *)
VARIABLES
    h_pc,                       \* where each application thread is in ViewManager::send
    h_wedged,                   \* thread_shutdown of curr_view->multicast_group
    h_writer,                   \* finish_view_change holds view_mutex
    h_queue,                    \* the messages the engine of curr_view accepted
    h_done,                     \* the calls of send each thread returned from
    h_blocked                   \* the thread's last call waited on view_change_cv

hvars == <<h_pc, h_wedged, h_writer, h_queue, h_done, h_blocked>>

(* ------------- the leader's changes list across a held view ------------- *)
VARIABLES
    o_pc,                       \* which predicates of the leader are registered
    o_view,                     \* curr_view of the leader
    o_row,                      \* the leader's row of gmsSST
    o_acked,                    \* min_acked over the other members
    o_min,                      \* members a view needs to be adequately provisioned
    o_base,                     \* curr_num_committed of the last retry predicate
    o_joins                     \* clients that asked to join so far

ovars == <<o_pc, o_view, o_row, o_acked, o_min, o_base, o_joins>>

(* --------------- state transfer after a view was installed -------------- *)
VARIABLES
    f_old_shard_leaders,        \* old_shard_leaders_by_id: the old leader of each shard, or none
    f_joined,                   \* subgroup_shard_views[..].joined of the installed view
    f_persistent,               \* is_persistent() of the object of each subgroup
    f_pc,                       \* where each node is between the sends and the receives
    f_sent,                     \* the calls of send_subgroup_object that returned
    f_wire,                     \* bytes written to the socket of a pair of nodes, unread
    f_wrote,                    \* the node wrote the log tail length of its next receive
    f_got                       \* the subgroups whose object the node received

fvars == <<f_old_shard_leaders, f_joined, f_persistent, f_pc, f_sent, f_wire,
           f_wrote, f_got>>

\* the state of the parts of the model added after the join requests
yvars == <<lvars, nvars, kvars, tvars, vvars, wvars, qvars, evars, hvars, ovars, fvars>>

\* the state of the parts of the model that follow the view manager
xvars == <<uvars, rvars, dvars, svars, jvars, yvars>>

\* what an action on lvars leaves alone
NotL == <<mcvars, gvars, pvars, uvars, rvars, dvars, svars, jvars, nvars, kvars, tvars, vvars, wvars, qvars, evars, hvars, ovars, fvars>>

\* what an action on nvars leaves alone
NotN == <<mcvars, gvars, pvars, uvars, rvars, dvars, svars, jvars, lvars, kvars, tvars, vvars, wvars, qvars, evars, hvars, ovars, fvars>>

\* what an action on kvars leaves alone
NotK == <<mcvars, gvars, pvars, uvars, rvars, dvars, svars, jvars, lvars, nvars, tvars, vvars, wvars, qvars, evars, hvars, ovars, fvars>>

\* what an action on tvars leaves alone
NotT == <<mcvars, gvars, pvars, uvars, rvars, dvars, svars, jvars, lvars, nvars, kvars, vvars, wvars, qvars, evars, hvars, ovars, fvars>>

\* what an action on vvars leaves alone
NotV == <<mcvars, gvars, pvars, uvars, rvars, dvars, svars, jvars, lvars, nvars, kvars, tvars, wvars, qvars, evars, hvars, ovars, fvars>>

\* what an action on wvars leaves alone
NotW == <<mcvars, gvars, pvars, uvars, rvars, dvars, svars, jvars, lvars, nvars, kvars, tvars, vvars, qvars, evars, hvars, ovars, fvars>>

\* what an action on qvars leaves alone
NotQ == <<mcvars, gvars, pvars, uvars, rvars, dvars, svars, jvars, lvars, nvars, kvars, tvars, vvars, wvars, evars, hvars, ovars, fvars>>

\* what an action on evars leaves alone
NotE == <<mcvars, gvars, pvars, uvars, rvars, dvars, svars, jvars, lvars, nvars, kvars, tvars, vvars, wvars, qvars, hvars, ovars, fvars>>

\* what an action on hvars leaves alone
NotH == <<mcvars, gvars, pvars, uvars, rvars, dvars, svars, jvars, lvars, nvars, kvars, tvars, vvars, wvars, qvars, evars, ovars, fvars>>

\* what an action on ovars leaves alone
NotO == <<mcvars, gvars, pvars, uvars, rvars, dvars, svars, jvars, lvars, nvars, kvars, tvars, vvars, wvars, qvars, evars, hvars, fvars>>

\* what an action on fvars leaves alone
NotF == <<mcvars, gvars, pvars, uvars, rvars, dvars, svars, jvars, lvars, nvars, kvars, tvars, vvars, wvars, qvars, evars, hvars, ovars>>

vars == <<mcvars, gvars, pvars, xvars>>

(* ------------------------------ helpers ------------------------------- *)
Min(S) == CHOOSE x \in S : \A y \in S : x <= y
Max(S) == CHOOSE x \in S : \A y \in S : x >= y
InsertAt(s, p, x) == SubSeq(s, 1, p - 1) \o <<x>> \o SubSeq(s, p, Len(s))
RemoveAt(s, p) == SubSeq(s, 1, p - 1) \o SubSeq(s, p + 1, Len(s))

\* the row a member initialises in MulticastGroup::initialize_sst_row
InitRow == [num_received |-> [s \in Senders |-> -1],
            seq_num |-> -1,
            delivered_num |-> -1,
            global_min |-> [s \in Senders |-> 0],
            global_min_ready |-> FALSE,
            wedged |-> FALSE,
            nslots |-> 0,
            sync |-> 0]

\* what member n reads in row r: its own row, or its local copy of a peer's
Row(n, r) == IF r = n THEN sst[n] ELSE cache[n][r]

\* put / put_with_completion reaching every peer that still accepts the row
PushedCache(n, row) ==
    [m \in Node |-> IF m # n /\ alive[m] /\ ~stopped[m][n]
                    THEN [cache[m] EXCEPT ![n] = row] ELSE cache[m]]

(* ---------------- MulticastGroup::resolve_num_received ---------------- *)
\* variant: the search stops at the end of the list
ResolvePosEnd(list, index) == Len(list)

\* position of the iterator after `it = end; it--; while(*it > index) it--`
ResolvePos(list, index) == Max({p \in 1..Len(list) : list[p] <= index})

resolve_list(list, index) ==
    LET it == ResolvePos(list, index)
    IN  IF it = Len(list)
        THEN IF list[it] = index - 1
             THEN [list EXCEPT ![it] = index]
             ELSE list \o <<index, index>>
        ELSE LET nxt == it + 1
             IN  IF list[it] # index - 1
                 THEN IF list[nxt] # index + 1
                      THEN InsertAt(InsertAt(list, nxt, index), nxt + 1, index)
                      ELSE RemoveAt(InsertAt(list, nxt, index), nxt + 1)
                 ELSE IF list[nxt] # index + 1
                      THEN RemoveAt(InsertAt(list, nxt, index), it)
                      ELSE RemoveAt(RemoveAt(list, nxt), it)

resolve_num_received(list, index) == resolve_list(list, index)[2]

(* ----------------------- messages of one sender ----------------------- *)
NullMsg == [tr |-> "sst", null |-> TRUE]
\* header index of the j-th (from 0) message that list carries on transport tr
IndexOfNth(list, tr, j) ==
    (CHOOSE p \in 1..Len(list) :
        /\ list[p].tr = tr
        /\ Cardinality({q \in 1..(p - 1) : list[q].tr = tr}) = j) - 1
CountOf(list, tr) == Cardinality({p \in 1..Len(list) : list[p].tr = tr})

\* variant: the rank of the minimum is left out
new_seq_num_of_min(nr) == (Min({nr[s] : s \in Senders}) + 1) * num_shard_senders - 1

\* (min_ptr + 1) * num_shard_senders + min_index - 1, min_element taking the
\* first minimum
new_seq_num(nr) ==
    LET m == Min({nr[s] : s \in Senders})
        min_index == Min({s \in Senders : nr[s] = m})
    IN  (m + 1) * num_shard_senders + min_index - 1

(* -------------------------- NULL send scheme -------------------------- *)
\* variant: the NULL messages stop one index short
NullTargetShort(n, r, new_num_received) ==
    IF sender_rank(n) < 0 \/ sender_rank(n) = r THEN 0
    ELSE IF sender_rank(n) < r THEN new_num_received
    ELSE new_num_received - 1

\* the index up to which a sender must have sent after it received a message
\* with contiguous count new_num_received from sender rank r
NullTarget(n, r, new_num_received) ==
    IF sender_rank(n) < 0 \/ sender_rank(n) = r THEN 0
    ELSE IF sender_rank(n) < r THEN new_num_received + 1
    ELSE new_num_received

(* ---------------------- receive handlers (state) ---------------------- *)
\* The part of member n's state that the receive handlers change.
RecvState(n) ==
    [fmi |-> future_message_indices[n],
     ri |-> received_intervals[n],
     rmap |-> locally_stable_rdmc_messages[n],
     smap |-> locally_stable_sst_messages[n],
     nr |-> sst[n].num_received,
     nrs |-> num_received_sst[n],
     mysent |-> IF n \in Senders THEN sent[n] ELSE <<>>,
     nslots |-> sst[n].nslots]

RECURSIVE NullMsgs(_)
NullMsgs(k) == IF k <= 0 THEN <<>> ELSE <<NullMsg>> \o NullMsgs(k - 1)

\* get_buffer_and_send_auto_null called until future_message_indices reaches
\* target: each call takes the next index and publishes a header-only message
\* in the small-message ring; the engine's wedged flag is not consulted
auto_null(st, target) ==
    LET k == IF target > st.fmi THEN target - st.fmi ELSE 0
    IN  [st EXCEPT !.fmi = st.fmi + k,
                   !.mysent = st.mysent \o NullMsgs(k),
                   !.nslots = st.nslots + k]

\* rdmc_receive_handler up to the SST update: store the message, resolve the
\* received count, run the NULL send scheme
rdmc_receive_handler(st, n, r, index) ==
    LET list == resolve_list(st.ri[r], index)
        new_num_received == list[2]
        st1 == [st EXCEPT !.rmap = st.rmap \cup {index * num_shard_senders + r},
                          !.ri = [st.ri EXCEPT ![r] = list]]
        st2 == auto_null(st1, NullTarget(n, r, new_num_received))
    IN  IF new_num_received > st2.nr[r]
        THEN [st2 EXCEPT !.nr = [st2.nr EXCEPT ![r] = new_num_received]]
        ELSE st2

\* MulticastGroup::sst_receive_handler (ORDERED mode)
sst_receive_handler(st, n, r, index) ==
    LET list == resolve_list(st.ri[r], index)
        new_num_received == list[2]
        st1 == [st EXCEPT !.smap = st.smap \cup {index * num_shard_senders + r},
                          !.ri = [st.ri EXCEPT ![r] = list]]
        st2 == auto_null(st1, NullTarget(n, r, new_num_received))
    IN  [st2 EXCEPT !.nr = [st2.nr EXCEPT ![r] = new_num_received]]

\* number of ring slots of sender r that member n can see
VisibleSlots(st, n, r) == IF r = n THEN st.nslots ELSE cache[n][r].nslots
SentOf(st, n, r) == IF r = n THEN st.mysent ELSE sent[r]

\* MulticastGroup::receiver_predicate
receiver_predicate(st, n) ==
    \E r \in Senders : VisibleSlots(st, n, r) > st.nrs[r] + 1

\* the two nested loops of MulticastGroup::receiver_function,
\* from batch round i and sender sender_count on
RECURSIVE receiver_loop(_, _, _, _, _)
receiver_loop(st, n, i, sender_count, batch_size) ==
    IF i >= batch_size THEN st
    ELSE IF sender_count >= num_shard_senders
         THEN receiver_loop(st, n, i + 1, 0, batch_size)
         ELSE LET num_received == st.nrs[sender_count] + 1
                  st1 == IF VisibleSlots(st, n, sender_count) > num_received
                         THEN [sst_receive_handler(st, n, sender_count,
                                   IndexOfNth(SentOf(st, n, sender_count), "sst", num_received))
                               EXCEPT !.nrs[sender_count] = num_received]
                         ELSE st
              IN  receiver_loop(st1, n, i, sender_count + 1, batch_size)

receiver_function(st, n, batch_size) == receiver_loop(st, n, 0, 0, batch_size)

\* terminate_epoch: while(receiver_predicate(...)) receiver_function(..., window_size)
RECURSIVE drain_smc(_, _)
drain_smc(st, n) ==
    IF receiver_predicate(st, n)
    THEN drain_smc(receiver_function(st, n, window_size), n)
    ELSE st

\* the seq_num a receive handler publishes: raised only, never lowered
SeqNumAfter(old_seq_num, nr) ==
    IF new_seq_num(nr) > old_seq_num THEN new_seq_num(nr) ELSE old_seq_num

\* write the handler's result back to member n
StoreRecv(n, st, row) ==
    /\ future_message_indices' = [future_message_indices EXCEPT ![n] = st.fmi]
    /\ received_intervals' = [received_intervals EXCEPT ![n] = st.ri]
    /\ locally_stable_rdmc_messages' = [locally_stable_rdmc_messages EXCEPT ![n] = st.rmap]
    /\ locally_stable_sst_messages' = [locally_stable_sst_messages EXCEPT ![n] = st.smap]
    /\ num_received_sst' = [num_received_sst EXCEPT ![n] = st.nrs]
    /\ sent' = IF n \in Senders THEN [sent EXCEPT ![n] = st.mysent] ELSE sent
    /\ sst' = [sst EXCEPT ![n] = row]
    /\ cache' = PushedCache(n, row)

RowAfterRecv(n, st) ==
    [sst[n] EXCEPT !.num_received = st.nr,
                   !.nslots = st.nslots,
                   !.seq_num = SeqNumAfter(sst[n].seq_num, st.nr)]

(* ------------------------------ delivery ------------------------------ *)
RECURSIVE SortedSeq(_)
SortedSeq(S) == IF S = {} THEN <<>>
                ELSE LET m == Min(S) IN <<m>> \o SortedSeq(S \ {m})

Tagged(seqs, how) == [k \in 1..Len(seqs) |-> [seq |-> seqs[k], how |-> how]]

\* variant: the member's own seq_num alone decides stability
min_stable_num_own(n) == sst[n].seq_num

\* variant: the highest seq_num of the shard decides stability
min_stable_num_max(n) == Max({Row(n, i).seq_num : i \in Node})

\* delivery_trigger: min over the shard members of seq_num, as n reads it
min_stable_num(n) == Min({Row(n, i).seq_num : i \in Node})

\* the messages the loop of delivery_trigger delivers: the least undelivered
\* message of either map, while it is <= min_stable_num
Deliverable(n) ==
    {q \in locally_stable_rdmc_messages[n] \cup locally_stable_sst_messages[n] :
        q <= min_stable_num(n)}

\* deliver_messages_upto: the highest sequence number of the cut
max_seq_num(curr_seq_num, max_indices) ==
    Max({curr_seq_num} \cup {max_indices[s] * num_shard_senders + s : s \in Senders})

\* deliver_messages_upto: the sequence numbers the loop does not skip
CutSeqs(curr_seq_num, max_indices) ==
    {q \in (curr_seq_num + 1)..max_seq_num(curr_seq_num, max_indices) :
        (q \div num_shard_senders) <= max_indices[q % num_shard_senders]}

(* ------------------- the multicast model: initial state --------------- *)
McInit ==
    /\ alive = [n \in Node |-> TRUE]
    /\ sst = [n \in Node |-> InitRow]
    /\ cache = [n \in Node |-> [r \in Node |-> InitRow]]
    /\ stopped = [n \in Node |-> [r \in Node |-> FALSE]]
    /\ failed = [n \in Node |-> {}]
    /\ thread_shutdown = [n \in Node |-> FALSE]
    /\ mcpc = [n \in Node |-> "steady"]
    /\ future_message_indices = [n \in Node |-> 0]
    /\ received_intervals = [n \in Node |-> [s \in Senders |-> <<-1, -1>>]]
    /\ num_received_sst = [n \in Node |-> [s \in Senders |-> -1]]
    /\ locally_stable_rdmc_messages = [n \in Node |-> {}]
    /\ locally_stable_sst_messages = [n \in Node |-> {}]
    /\ sent = [s \in Senders |-> <<>>]
    /\ rdmc_sent = [s \in Senders |-> 0]
    /\ rdmc_got = [n \in Node |-> [s \in Senders |-> 0]]
    /\ change_proposed = FALSE
    /\ out_of_range = [n \in Node |-> FALSE]
    /\ max_applied = [n \in Node |-> <<>>]
    /\ next_members = [n \in Node |-> {}]
    /\ delivered = [n \in Node |-> <<>>]

(* ----------------------- sending and receiving ------------------------ *)
\* variant: the sender looks at its own delivered_num only
WindowOpenOwn(n) ==
    sst[n].delivered_num >=
        (future_message_indices[n] - window_size) * num_shard_senders + sender_rank(n)

\* get_sendbuffer_ptr: every shard member's delivered_num is within the window
WindowOpen(n) ==
    \A i \in Node :
        Row(n, i).delivered_num >=
            (future_message_indices[n] - window_size) * num_shard_senders + sender_rank(n)

\* MulticastGroup::send with get_sendbuffer_ptr: the message takes the next
\* index; a small message is written to the ring, a large one is queued for
\* the send loop; cap bounds the indices the application uses
McSend(n, tr, cap) ==
    /\ alive[n] /\ n \in Senders
    /\ ~thread_shutdown[n]
    /\ future_message_indices[n] < cap
    /\ WindowOpen(n)
    /\ sent' = [sent EXCEPT ![n] = Append(@, [tr |-> tr, null |-> FALSE])]
    /\ future_message_indices' = [future_message_indices EXCEPT ![n] = @ + 1]
    /\ LET row == IF tr = "sst" THEN [sst[n] EXCEPT !.nslots = @ + 1] ELSE sst[n]
       IN  /\ sst' = [sst EXCEPT ![n] = row]
           /\ cache' = PushedCache(n, row)
    /\ UNCHANGED <<gvars, pvars, xvars>>
    /\ UNCHANGED <<next_members, alive, stopped, failed, thread_shutdown, mcpc,
                   received_intervals, num_received_sst,
                   locally_stable_rdmc_messages, locally_stable_sst_messages,
                   rdmc_sent, rdmc_got, change_proposed, out_of_range,
                   max_applied, delivered>>

\* send_loop: hand the next queued large message to the bulk transport once
\* should_send_to_subgroup allows it
SendLoop(n) ==
    /\ alive[n] /\ n \in Senders
    /\ ~thread_shutdown[n]
    /\ rdmc_sent[n] < CountOf(sent[n], "rdmc")
    /\ LET index == IndexOfNth(sent[n], "rdmc", rdmc_sent[n])
       IN  /\ sst[n].num_received[n] >= index - 1
           /\ \A i \in Node :
                Row(n, i).delivered_num >=
                    (index - window_size) * num_shard_senders + sender_rank(n)
    /\ rdmc_sent' = [rdmc_sent EXCEPT ![n] = @ + 1]
    /\ UNCHANGED <<gvars, pvars, xvars>>
    /\ UNCHANGED <<next_members, alive, sst, cache, stopped, failed, thread_shutdown, mcpc,
                   future_message_indices, received_intervals, num_received_sst,
                   locally_stable_rdmc_messages, locally_stable_sst_messages,
                   sent, rdmc_got, change_proposed, out_of_range, max_applied,
                   delivered>>

\* the completion callback of the bulk transport at member n for the next
\* message of sender s (the sender's own completion included)
RdmcReceive(n, s) ==
    /\ alive[n]
    /\ ~thread_shutdown[n]
    /\ rdmc_got[n][s] < rdmc_sent[s]
    /\ LET index == IndexOfNth(sent[s], "rdmc", rdmc_got[n][s])
           st == rdmc_receive_handler(RecvState(n), n, s, index)
       IN  StoreRecv(n, st, RowAfterRecv(n, st))
    /\ rdmc_got' = [rdmc_got EXCEPT ![n][s] = @ + 1]
    /\ UNCHANGED <<gvars, pvars, xvars>>
    /\ UNCHANGED <<next_members, alive, stopped, failed, thread_shutdown, mcpc,
                   rdmc_sent, change_proposed, out_of_range, max_applied,
                   delivered>>

\* the receiver predicate and its trigger, receiver_function with the
\* steady-state batch size
ReceiverTrig(n) ==
    /\ alive[n]
    /\ ~thread_shutdown[n]
    /\ receiver_predicate(RecvState(n), n)
    /\ LET batch_size == IF window_size \div 2 > 1 THEN window_size \div 2 ELSE 1
           st == receiver_function(RecvState(n), n, batch_size)
       IN  StoreRecv(n, st, RowAfterRecv(n, st))
    /\ UNCHANGED <<gvars, pvars, xvars>>
    /\ UNCHANGED <<next_members, alive, stopped, failed, thread_shutdown, mcpc,
                   rdmc_sent, rdmc_got, change_proposed, out_of_range,
                   max_applied, delivered>>

\* the delivery predicate and MulticastGroup::delivery_trigger
DeliveryTrig(n) ==
    /\ alive[n]
    /\ ~thread_shutdown[n]
    /\ Deliverable(n) # {}
    /\ delivered' = [delivered EXCEPT
                        ![n] = @ \o Tagged(SortedSeq(Deliverable(n)), "trigger")]
    /\ LET row == [sst[n] EXCEPT !.delivered_num = Max(Deliverable(n))]
       IN  /\ sst' = [sst EXCEPT ![n] = row]
           /\ cache' = PushedCache(n, row)
    /\ locally_stable_rdmc_messages' =
            [locally_stable_rdmc_messages EXCEPT ![n] = @ \ Deliverable(n)]
    /\ locally_stable_sst_messages' =
            [locally_stable_sst_messages EXCEPT ![n] = @ \ Deliverable(n)]
    /\ UNCHANGED <<gvars, pvars, xvars>>
    /\ UNCHANGED <<next_members, alive, stopped, failed, thread_shutdown, mcpc,
                   future_message_indices, received_intervals, num_received_sst,
                   sent, rdmc_sent, rdmc_got, change_proposed, out_of_range,
                   max_applied>>

(* ------------------------ failures and wedging ------------------------ *)
\* what is left of a stopped process q: its memory is gone; the messages it
\* originated and the copies of its row at the peers remain
Stopped(q) ==
    /\ alive' = [alive EXCEPT ![q] = FALSE]
    /\ stopped' = [stopped EXCEPT ![q] = [r \in Node |-> FALSE]]
    /\ failed' = [failed EXCEPT ![q] = {}]
    /\ thread_shutdown' = [thread_shutdown EXCEPT ![q] = FALSE]
    /\ mcpc' = [mcpc EXCEPT ![q] = "steady"]
    /\ future_message_indices' = [future_message_indices EXCEPT ![q] = 0]
    /\ received_intervals' = [received_intervals EXCEPT ![q] = [s \in Senders |-> <<-1, -1>>]]
    /\ num_received_sst' = [num_received_sst EXCEPT ![q] = [s \in Senders |-> -1]]
    /\ locally_stable_rdmc_messages' = [locally_stable_rdmc_messages EXCEPT ![q] = {}]
    /\ locally_stable_sst_messages' = [locally_stable_sst_messages EXCEPT ![q] = {}]
    /\ rdmc_got' = [rdmc_got EXCEPT ![q] = [s \in Senders |-> 0]]
    /\ max_applied' = [max_applied EXCEPT ![q] = <<>>]
    /\ next_members' = [next_members EXCEPT ![q] = {}]
    /\ delivered' = [delivered EXCEPT ![q] = <<>>]
    /\ sst' = [sst EXCEPT ![q] = InitRow]

\* a member stops (crash-stop) between two handlers
Crash(q) ==
    /\ alive[q]
    /\ Cardinality({m \in Node : ~alive[m]}) < MaxCrash
    /\ Stopped(q)
    /\ cache' = [cache EXCEPT ![q] = [r \in Node |-> InitRow]]
    /\ UNCHANGED <<gvars, pvars, xvars>>
    /\ UNCHANGED <<sent, rdmc_sent, change_proposed, out_of_range>>

\* the lowest-ranked member n has not marked failed
\* (View::rank_of_leader, View::subview_rank_of_shard_leader)
rank_of_leader(n) == Min(Node \ failed[n])

\* new_suspicion for one newly suspected member q, as far as the multicast
\* columns go (a trigger: it does not run while terminate_epoch is running):
\* the partition check, freeze(q), wedge, failed[q]; the leader
\* then proposes the removal
McNewSuspicion(n, q) ==
    /\ alive[n] /\ ~alive[q]
    /\ q \notin failed[n]
    /\ mcpc[n] \in {"steady", "follower", "cleaned"}
    /\ LET num_failed == Cardinality(failed[n]) + 1
           partitioned == num_failed >= (Cardinality(Node) + 1) \div 2
       IN  /\ alive' = [alive EXCEPT ![n] = ~partitioned]
           /\ stopped' = [stopped EXCEPT ![n][q] = TRUE]
           /\ thread_shutdown' = [thread_shutdown EXCEPT ![n] = TRUE]
           /\ sst' = [sst EXCEPT ![n].wedged = TRUE]
           /\ cache' = PushedCache(n, sst'[n])
           /\ failed' = [failed EXCEPT ![n] = @ \cup {q}]
           /\ change_proposed' =
                (change_proposed \/ (~partitioned /\ rank_of_leader(n)' = n))
    /\ UNCHANGED <<gvars, pvars, xvars>>
    /\ UNCHANGED <<next_members, mcpc, future_message_indices, received_intervals,
                   num_received_sst, locally_stable_rdmc_messages,
                   locally_stable_sst_messages, sent, rdmc_sent, rdmc_got,
                   out_of_range, max_applied, delivered>>

\* the leader proposes a change that is not a failure (a join)
McPropose ==
    /\ ~change_proposed
    /\ \E n \in Node : alive[n] /\ rank_of_leader(n) = n /\ mcpc[n] = "steady"
    /\ change_proposed' = TRUE
    /\ UNCHANGED <<gvars, pvars, xvars>>
    /\ UNCHANGED <<next_members, alive, sst, cache, stopped, failed, thread_shutdown, mcpc,
                   future_message_indices, received_intervals, num_received_sst,
                   locally_stable_rdmc_messages, locally_stable_sst_messages,
                   sent, rdmc_sent, rdmc_got, out_of_range, max_applied,
                   delivered>>

\* View::wedge, called when a member acknowledges or proposes a change and in
\* start_meta_wedge: MulticastGroup::wedge, then wedged[my_rank] is published
McWedge(n) ==
    /\ alive[n]
    /\ change_proposed
    /\ ~sst[n].wedged
    /\ thread_shutdown' = [thread_shutdown EXCEPT ![n] = TRUE]
    /\ sst' = [sst EXCEPT ![n].wedged = TRUE]
    /\ cache' = PushedCache(n, sst'[n])
    /\ UNCHANGED <<gvars, pvars, xvars>>
    /\ UNCHANGED <<next_members, alive, stopped, failed, mcpc,
                   future_message_indices, received_intervals, num_received_sst,
                   locally_stable_rdmc_messages, locally_stable_sst_messages,
                   sent, rdmc_sent, rdmc_got, change_proposed, out_of_range,
                   max_applied, delivered>>

(* -------------------------- epoch termination ------------------------- *)
\* the one-time predicate is_meta_wedged of start_meta_wedge
is_meta_wedged(n) == \A m \in Node : m \in failed[n] \/ Row(n, m).wedged

\* sync_with_members: every peer whose row n has not frozen and that still
\* answers has announced barrier k
Synced(n, k) ==
    \A m \in Node : m = n \/ stopped[n][m] \/ ~alive[m] \/ cache[n][m].sync >= k

\* terminate_epoch up to the first barrier: make_next_view drops the members
\* marked failed, then put_with_completion of the row
TerminateEpochBegin(n) ==
    /\ alive[n]
    /\ mcpc[n] = "steady"
    /\ change_proposed
    /\ sst[n].wedged
    /\ is_meta_wedged(n)
    /\ LET row == [sst[n] EXCEPT !.sync = 1]
       IN  /\ sst' = [sst EXCEPT ![n] = row]
           /\ cache' = PushedCache(n, row)
    /\ mcpc' = [mcpc EXCEPT ![n] = "barrier1"]
    /\ next_members' = [next_members EXCEPT ![n] = Node \ failed[n]]
    /\ UNCHANGED <<gvars, pvars, xvars>>
    /\ UNCHANGED <<alive, stopped, failed, thread_shutdown,
                   future_message_indices, received_intervals, num_received_sst,
                   locally_stable_rdmc_messages, locally_stable_sst_messages,
                   sent, rdmc_sent, rdmc_got, change_proposed, out_of_range,
                   max_applied, delivered>>

\* terminate_epoch past the first barrier: drain the small-message ring, then
\* put_with_completion of the row for the second barrier
TerminateEpochDrain(n) ==
    /\ alive[n]
    /\ mcpc[n] = "barrier1"
    /\ Synced(n, 1)
    /\ LET st == drain_smc(RecvState(n), n)
           row == [RowAfterRecv(n, st) EXCEPT !.sync = 2]
       IN  StoreRecv(n, st, row)
    /\ mcpc' = [mcpc EXCEPT ![n] = "barrier2"]
    /\ UNCHANGED <<gvars, pvars, xvars>>
    /\ UNCHANGED <<next_members, alive, stopped, failed, thread_shutdown, rdmc_sent,
                   rdmc_got, change_proposed, out_of_range, max_applied,
                   delivered>>

(* ------------------------- ragged-edge cleanup ------------------------ *)
\* leader_ragged_edge_cleanup: the global_min the shard leader n publishes.
\* A row whose global_min_ready is set is copied (the first one in shard
\* order, failed or not); otherwise the minimum of num_received over the
\* members n has not marked failed, starting from n's own
leader_global_min(n) ==
    LET ready == {m \in Node : Row(n, m).global_min_ready}
    IN  IF ready # {}
        THEN Row(n, Min(ready)).global_min
        ELSE [s \in Senders |->
                Min({Row(n, m).num_received[s] : m \in (Node \ failed[n]) \cup {n}})]

\* variant: the follower trims at what it received itself
follower_global_min_own(n) == sst[n].num_received

\* follower_ragged_edge_cleanup: the global_min the follower echoes, the one
\* in the row of the member it takes for the shard leader
follower_global_min(n) == Row(n, rank_of_leader(n)).global_min

\* deliver_in_order and deliver_messages_upto at member n, whose row (with
\* the global_min it just wrote) is row: deliver the cut in sequence order;
\* a sequence number of the cut found in neither map makes
\* locally_stable_sst_messages.at() throw, which ends the process
DeliverMessagesUpto(n, row, max_indices) ==
    LET curr_seq_num == row.delivered_num
        cut == CutSeqs(curr_seq_num, max_indices)
        have == locally_stable_rdmc_messages[n] \cup locally_stable_sst_messages[n]
        missing == cut \ have
        done == IF missing = {} THEN cut ELSE {q \in cut : q < Min(missing)}
    IN  /\ max_applied' = [max_applied EXCEPT ![n] = max_indices]
        /\ delivered' = [delivered EXCEPT ![n] = @ \o Tagged(SortedSeq(done), "cleanup")]
        /\ locally_stable_rdmc_messages' =
                [locally_stable_rdmc_messages EXCEPT ![n] = @ \ done]
        /\ locally_stable_sst_messages' =
                [locally_stable_sst_messages EXCEPT ![n] = @ \ done]
        /\ out_of_range' = [out_of_range EXCEPT ![n] = (missing # {})]
        /\ alive' = [alive EXCEPT ![n] = (missing = {})]
        /\ LET final == IF missing = {}
                        THEN [row EXCEPT !.delivered_num = max_seq_num(curr_seq_num, max_indices)]
                        ELSE row
           IN  /\ sst' = [sst EXCEPT ![n] = final]
               /\ cache' = PushedCache(n, final)

\* terminate_epoch past the second barrier: the shard leader runs
\* leader_ragged_edge_cleanup, any other member registers the one-time
\* predicate leader_global_mins_are_ready
RaggedEdgeCleanup(n) ==
    /\ alive[n]
    /\ mcpc[n] = "barrier2"
    /\ Synced(n, 2)
    /\ IF rank_of_leader(n) = n
       THEN LET gm == leader_global_min(n)
                row == [sst[n] EXCEPT !.global_min = gm, !.global_min_ready = TRUE]
            IN  /\ DeliverMessagesUpto(n, row, gm)
                /\ mcpc' = [mcpc EXCEPT ![n] = "cleaned"]
       ELSE /\ mcpc' = [mcpc EXCEPT ![n] = "follower"]
            /\ UNCHANGED <<alive, sst, cache, locally_stable_rdmc_messages,
                           locally_stable_sst_messages, out_of_range,
                           max_applied, delivered>>
    /\ UNCHANGED <<gvars, pvars, xvars>>
    /\ UNCHANGED <<next_members, stopped, failed, thread_shutdown,
                   future_message_indices, received_intervals, num_received_sst,
                   sent, rdmc_sent, rdmc_got, change_proposed>>

\* leader_global_mins_are_ready and global_min_ready_continuation: the
\* follower echoes the global_min of the member it now takes for the shard
\* leader (follower_ragged_edge_cleanup) and delivers the cut
FollowerCleanup(n) ==
    /\ alive[n]
    /\ mcpc[n] = "follower"
    /\ Row(n, rank_of_leader(n)).global_min_ready
    /\ LET gm == follower_global_min(n)
           row == [sst[n] EXCEPT !.global_min = gm, !.global_min_ready = TRUE]
       IN  DeliverMessagesUpto(n, row, gm)
    /\ mcpc' = [mcpc EXCEPT ![n] = "cleaned"]
    /\ UNCHANGED <<gvars, pvars, xvars>>
    /\ UNCHANGED <<next_members, stopped, failed, thread_shutdown,
                   future_message_indices, received_intervals, num_received_sst,
                   sent, rdmc_sent, rdmc_got, change_proposed>>

\* the member stops inside its ragged-edge cleanup between the RDMA writes of
\* the put of global_min_ready: the peers in reach have the published
\* global_min and flag, the others do not, and nothing is delivered
CleanupCrash(n, reach) ==
    /\ alive[n]
    /\ Cardinality({m \in Node : ~alive[m]}) < MaxCrash
    /\ reach \subseteq {m \in Node : m # n /\ alive[m] /\ ~stopped[m][n]}
    /\ \/ /\ mcpc[n] = "barrier2" /\ Synced(n, 2) /\ rank_of_leader(n) = n
       \/ /\ mcpc[n] = "follower" /\ Row(n, rank_of_leader(n)).global_min_ready
    /\ LET gm == IF mcpc[n] = "barrier2" THEN leader_global_min(n)
                 ELSE follower_global_min(n)
           row == [sst[n] EXCEPT !.global_min = gm, !.global_min_ready = TRUE]
       IN  cache' = [m \in Node |-> IF m = n THEN [r \in Node |-> InitRow]
                                    ELSE IF m \in reach
                                         THEN [cache[m] EXCEPT ![n] = row]
                                         ELSE cache[m]]
    /\ Stopped(n)
    /\ UNCHANGED <<gvars, pvars, xvars>>
    /\ UNCHANGED <<sent, rdmc_sent, change_proposed, out_of_range>>

\* MulticastGroup constructor from old_group: the old indices of the large
\* messages of member n that the sender thread had not handed over
\* (pending_sends) and of the one it had handed over without a local
\* completion (current_sends)
OldQueued(n) ==
    IF n \notin Senders THEN <<>>
    ELSE [k \in 1..(CountOf(sent[n], "rdmc") - rdmc_got[n][n]) |->
            IndexOfNth(sent[n], "rdmc", rdmc_got[n][n] + k - 1)]

\* MulticastGroup constructor from old_group: pending_sends of the new engine.
\* The member's own entries of locally_stable_rdmc_messages come first, in
\* map order, then current_sends and pending_sends; convert_msg gives each
\* the next index of the new engine (its position in the queue). The entries
\* of locally_stable_sst_messages are cleared and nothing else is kept of the
\* small messages.
converted_pending_sends(n) ==
    LET own == {q \in locally_stable_rdmc_messages[n] :
                    q % num_shard_senders = sender_rank(n)}
        stable == SortedSeq(own)
    IN  [k \in 1..Len(stable) |-> stable[k] \div num_shard_senders] \o OldQueued(n)

\* finish_view_change: transition_multicast_group returns once every member
\* of next_view answers the handshake of the new view; the member installs it
\* and transition_multicast_group builds the engine of the new view
McFinishViewChange(n) ==
    /\ alive[n]
    /\ mcpc[n] = "cleaned"
    /\ \A m \in next_members[n] :
            /\ alive[m]
            /\ mcpc[m] \in {"cleaned", "installed"}
            /\ next_members[m] = next_members[n]
    /\ mcpc' = [mcpc EXCEPT ![n] = "installed"]
    /\ new_pending_sends' = [new_pending_sends EXCEPT ![n] = converted_pending_sends(n)]
    /\ UNCHANGED <<gvars, pvars, uvars, dvars, svars, jvars, yvars>>
    /\ UNCHANGED <<next_members, alive, sst, cache, stopped, failed, thread_shutdown,
                   future_message_indices, received_intervals, num_received_sst,
                   locally_stable_rdmc_messages, locally_stable_sst_messages,
                   sent, rdmc_sent, rdmc_got, change_proposed, out_of_range,
                   max_applied, delivered>>

McNext ==
    \/ \E n \in Node, tr \in {"sst", "rdmc"} : McSend(n, tr, MaxIndex)
    \/ \E n \in Node : SendLoop(n)
    \/ \E n \in Node, s \in Senders : RdmcReceive(n, s)
    \/ \E n \in Node : ReceiverTrig(n)
    \/ \E n \in Node : DeliveryTrig(n)
    \/ \E q \in Node : Crash(q)
    \/ \E n \in Node, q \in Node : McNewSuspicion(n, q)
    \/ McPropose
    \/ \E n \in Node : McWedge(n)
    \/ \E n \in Node : TerminateEpochBegin(n)
    \/ \E n \in Node : TerminateEpochDrain(n)
    \/ \E n \in Node : RaggedEdgeCleanup(n)
    \/ \E n \in Node : FollowerCleanup(n)
    \/ \E n \in Node, reach \in SUBSET Node : CleanupCrash(n, reach)
    \/ \E n \in Node : McFinishViewChange(n)

\* A failure-free epoch ended by a join: no member stops, every sender may
\* use one index more, sender 0 sends large messages and sender 1 small ones
OrdNext ==
    \/ \E n \in Node : McSend(n, IF n = 0 THEN "rdmc" ELSE "sst", MaxIndex + 1)
    \/ \E n \in Node : SendLoop(n)
    \/ \E n \in Node, s \in Senders : RdmcReceive(n, s)
    \/ \E n \in Node : ReceiverTrig(n)
    \/ \E n \in Node : DeliveryTrig(n)
    \/ McPropose
    \/ \E n \in Node : McWedge(n)
    \/ \E n \in Node : TerminateEpochBegin(n)
    \/ \E n \in Node : TerminateEpochDrain(n)
    \/ \E n \in Node : RaggedEdgeCleanup(n)
    \/ \E n \in Node : FollowerCleanup(n)
    \/ \E n \in Node : McFinishViewChange(n)

\* An epoch ended by a join, without failures: sender 0 may use one index
\* more and chooses the transport of each message, sender 1 sends what the
\* NULL send scheme makes it send
ReplayNext ==
    \/ \E tr \in {"sst", "rdmc"} : McSend(0, tr, MaxIndex + 1)
    \/ \E n \in Node : SendLoop(n)
    \/ \E n \in Node, s \in Senders : RdmcReceive(n, s)
    \/ \E n \in Node : ReceiverTrig(n)
    \/ \E n \in Node : DeliveryTrig(n)
    \/ McPropose
    \/ \E n \in Node : McWedge(n)
    \/ \E n \in Node : TerminateEpochBegin(n)
    \/ \E n \in Node : TerminateEpochDrain(n)
    \/ \E n \in Node : RaggedEdgeCleanup(n)
    \/ \E n \in Node : FollowerCleanup(n)
    \/ \E n \in Node : McFinishViewChange(n)

(* ====================== the view manager (GMS) ======================== *)
\* highest vid a member may install
MaxVid == 1
\* number of members that may crash in the view-manager model
MaxGCrash == 1
\* gmsSST.changes.size(): room in the pending-changes list
ChangesSize == 3

\* node ids: the members of the initial view (id = rank in view 0) and the
\* one process that asks to join
GNode == {0, 1, 2}
Joiner == 3
AllId == GNode \cup {Joiner}
NoId == -1

NoView == [vid |-> -1, members |-> <<>>, failed |-> {}, joined |-> <<>>,
           departed |-> <<>>]
InitialView == [vid |-> 0, members |-> <<0, 1, 2>>, failed |-> {},
                joined |-> <<>>, departed |-> <<>>]

\* a freshly constructed row of DerechoSST
BlankRow ==
    [num_changes |-> 0, num_acked |-> 0, num_committed |-> 0,
     num_installed |-> 0, changes |-> [i \in 0..(ChangesSize - 1) |-> NoId],
     suspected |-> {}, wedged |-> FALSE, global_min_ready |-> FALSE,
     sync |-> FALSE]

\* the six predicates of register_predicates
SteadyHandles == {"suspected_changed", "start_join", "reject_join",
                  "change_commit_ready", "leader_proposed", "leader_committed"}

MemberSet(v) == {v.members[i] : i \in 1..Len(v.members)}
SeqToSet(s) == {s[i] : i \in 1..Len(s)}

\* variant: no id is found in the view
rank_of_none(v, id) == -1

\* View::rank_of: the rank of node id in the view, -1 if it is no member
rank_of(v, id) ==
    IF \E i \in 1..Len(v.members) : v.members[i] = id
    THEN (CHOOSE i \in 1..Len(v.members) :
              /\ v.members[i] = id
              /\ \A j \in 1..(i - 1) : v.members[j] # id) - 1
    ELSE -1

\* variant: the highest-ranked member whose failed flag is not set leads
leader_highest(v, fl) ==
    v.members[Max({i \in 1..Len(v.members) : v.members[i] \notin fl})]

\* View::rank_of_leader as a node id: the lowest-ranked member of the view
\* whose failed flag is not set
leader_id(v, fl) ==
    v.members[Min({i \in 1..Len(v.members) : v.members[i] \notin fl})]

g_rank_of_leader(n) == leader_id(curr_view[n], curr_view[n].failed)

\* View::i_am_leader
i_am_leader(n) == g_rank_of_leader(n) = n

\* DerechoSST::init_local_row_from_previous: the pending changes past the
\* installed ones move to the front, the counters carry over and
\* num_installed grows by the number of changes installed
init_local_row_from_previous(old, num_changes_installed) ==
    [BlankRow EXCEPT
        !.changes = [i \in 0..(ChangesSize - 1) |->
                        IF i + num_changes_installed < ChangesSize
                        THEN old.changes[i + num_changes_installed]
                        ELSE NoId],
        !.num_changes = old.num_changes,
        !.num_acked = old.num_acked,
        !.num_committed = old.num_committed,
        !.num_installed = old.num_installed + num_changes_installed]

changes_installed(v) == Len(v.joined) + Len(v.departed)

\* the row of member m in the SST of view vid, as a member of that view reads
\* it: m's row if m is in that view, the last row m wrote if m moved on, the
\* row m puts before sync_with_members if m is about to install that view
RowAt(vid, m) ==
    IF curr_view[m].vid = vid THEN gsst[m]
    ELSE IF curr_view[m].vid > vid THEN prev_row[m]
    ELSE IF gpc[m] = "handshake" /\ next_view[m].vid = vid /\ curr_view[m].vid >= 0
         THEN init_local_row_from_previous(gsst[m], changes_installed(next_view[m]))
         ELSE BlankRow

RowOf(n, m) == RowAt(curr_view[n].vid, m)

\* changes_contains
changes_contains(row, q) ==
    \E p_index \in 0..(row.num_changes - row.num_installed - 1) :
        p_index < ChangesSize /\ row.changes[p_index] = q

\* variant: the highest num_acked among the members decides the commit
max_acked(n) ==
    Max({gsst[n].num_acked} \cup
        {RowOf(n, m).num_acked : m \in MemberSet(curr_view[n]) \ curr_view[n].failed})

\* min_acked: over the caller's own row and the rows of the members whose
\* failed flag is not set
min_acked(n) ==
    Min({gsst[n].num_acked} \cup
        {RowOf(n, m).num_acked : m \in MemberSet(curr_view[n]) \ curr_view[n].failed})

\* variant: the threshold of the partition rule rounds up
partition_rule_ceil(rip_me, num_failed, num_left, num_members) ==
    /\ ~rip_me
    /\ num_failed # 0
    /\ (num_failed - num_left) * 2 >= (num_members - num_left + 1)

\* the partition rule of new_suspicion and report_failure (C++ integer division)
partition_rule(rip_me, num_failed, num_left, num_members) ==
    /\ ~rip_me
    /\ num_failed # 0
    /\ num_failed - num_left >= (num_members - num_left + 1) \div 2

\* make_next_view: the number of committed changes not yet installed, read
\* from the row of the member the caller takes for the leader
committed_count(n) ==
    RowOf(n, g_rank_of_leader(n)).num_committed
        - RowOf(n, g_rank_of_leader(n)).num_installed

\* variant: the next view keeps the vid of the current one
next_vid_same(v) == v.vid

\* the vid make_next_view gives the next view
next_vid(v) == v.vid + 1

\* make_next_view at member n: the first committed_count entries of n's own
\* changes list are filtered into leaves (ids that are members) and joins;
\* the members that stay keep their order and the joiners follow
make_next_view(n) ==
    LET v == curr_view[n]
        idx == 0..(Min({committed_count(n), ChangesSize}) - 1)
        change_id(i) == gsst[n].changes[i]
        leave_ids == {change_id(i) : i \in {j \in idx : rank_of(v, change_id(j)) # -1}}
        join_indexes == SortedSeq({j \in idx : rank_of(v, change_id(j)) = -1})
        joined == [k \in 1..Len(join_indexes) |-> change_id(join_indexes[k])]
        Stays(x) == x \notin leave_ids
        Leaves(x) == x \in leave_ids
    IN  [vid |-> next_vid(v),
         members |-> SelectSeq(v.members, Stays) \o joined,
         failed |-> v.failed \ leave_ids,
         joined |-> joined,
         departed |-> SelectSeq(v.members, Leaves)]

\* variant: every view counts as adequately provisioned
provisioned_always(v) == TRUE

\* View::is_adequately_provisioned, as the subgroup membership function of
\* the model sets it: the view has at least min_members members
is_adequately_provisioned(v) == Len(v.members) >= min_members

\* the loop of new_suspicion over the newly suspected members qs (in rank
\* order) at member n; st holds Vc.failed, n's row and whether the loop threw
RECURSIVE suspicion_loop(_, _, _)
suspicion_loop(n, st, qs) ==
    IF qs = <<>> \/ st.thrown THEN st
    ELSE LET q == Head(qs)
             v == curr_view[n]
             before == partition_rule(FALSE, Cardinality(st.failed), 0, Len(v.members))
             failed2 == st.failed \cup {q}
             after == partition_rule(FALSE, Cardinality(failed2), 0, Len(v.members))
             wedged_row == [st.row EXCEPT !.wedged = TRUE]
             leader_initiated ==
                 leader_id(v, failed2) = n /\ ~changes_contains(st.row, q)
             next_change_index == st.row.num_changes - st.row.num_installed
             no_room == leader_initiated /\ next_change_index >= ChangesSize
             proposed_row ==
                 IF leader_initiated /\ ~no_room
                 THEN [wedged_row EXCEPT !.changes[next_change_index] = q,
                                         !.num_changes = @ + 1]
                 ELSE wedged_row
         IN  IF before THEN [st EXCEPT !.thrown = TRUE]
             ELSE IF after THEN [st EXCEPT !.thrown = TRUE]
             ELSE IF no_room
                  THEN [failed |-> failed2, row |-> wedged_row, thrown |-> TRUE]
                  ELSE suspicion_loop(n, [failed |-> failed2, row |-> proposed_row,
                                          thrown |-> FALSE], Tail(qs))

(* --------------------------- initial state ---------------------------- *)
GInit ==
    /\ gpc = [n \in AllId |-> IF n \in GNode THEN "run" ELSE "out"]
    /\ curr_view = [n \in AllId |-> IF n \in GNode THEN InitialView ELSE NoView]
    /\ next_view = [n \in AllId |-> NoView]
    /\ gsst = [n \in AllId |-> BlankRow]
    /\ prev_row = [n \in AllId |-> BlankRow]
    /\ last_suspected = [n \in AllId |-> {}]
    /\ handles = [n \in AllId |-> IF n \in GNode THEN SteadyHandles ELSE {}]
    /\ retry_base = [n \in AllId |-> 0]
    /\ after_commit = [n \in AllId |-> FALSE]
    /\ follower_shard = [n \in AllId |-> FALSE]
    /\ pending_join_sockets = [n \in AllId |-> <<>>]
    /\ proposed_join_sockets = [n \in AllId |-> <<>>]
    /\ min_members \in {2, 3}
    /\ installed = [n \in AllId |-> IF n \in GNode THEN <<InitialView>> ELSE <<>>]

\* the process of member n ends (a crash, or a derecho_exception thrown in a
\* trigger): its private state is gone, the client whose socket it held
\* sees the connection break and will try again
Gone(n) ==
    LET held == SeqToSet(pending_join_sockets[n]) \cup SeqToSet(proposed_join_sockets[n])
    IN  /\ gpc' = [m \in AllId |->
                      IF m = n THEN "gone"
                      ELSE IF m \in held /\ gpc[m] \in {"asked", "accepted"}
                           THEN "out" ELSE gpc[m]]
        /\ next_view' = [next_view EXCEPT ![n] = NoView]
        /\ last_suspected' = [last_suspected EXCEPT ![n] = {}]
        /\ handles' = [handles EXCEPT ![n] = {}]
        /\ retry_base' = [retry_base EXCEPT ![n] = 0]
        /\ after_commit' = [after_commit EXCEPT ![n] = FALSE]
        /\ follower_shard' = [follower_shard EXCEPT ![n] = FALSE]
        /\ pending_join_sockets' = [pending_join_sockets EXCEPT ![n] = <<>>]
        /\ proposed_join_sockets' = [proposed_join_sockets EXCEPT ![n] = <<>>]

\* what Gone leaves alone
GoneKeeps == UNCHANGED <<curr_view, gsst, prev_row, min_members, installed>>

\* a member stops (crash-stop) between two handlers
GCrash(q) ==
    /\ q \in GNode
    /\ gpc[q] # "gone"
    /\ Cardinality({m \in GNode : gpc[m] = "gone"}) < MaxGCrash
    /\ Gone(q)
    /\ GoneKeeps
    /\ UNCHANGED <<mcvars, pvars, xvars>>

(* -------------------- failure reports and suspicions ------------------ *)
\* report_failure(q) at member n, called by the SST failure detector when
\* the connection to q broke: q has stopped
ReportFailure(n, q) ==
    /\ gpc[n] \in {"run", "barrier"}
    /\ q \in MemberSet(curr_view[n]) /\ q # n
    /\ gpc[q] = "gone"
    /\ q \notin gsst[n].suspected
    /\ LET suspected == gsst[n].suspected \cup {q}
       IN  IF partition_rule(FALSE, Cardinality(suspected), 0,
                             Len(curr_view[n].members))
           THEN Gone(n) /\ GoneKeeps
           ELSE /\ gsst' = [gsst EXCEPT ![n].suspected = suspected]
                /\ UNCHANGED <<gpc, curr_view, next_view, prev_row, last_suspected,
                               handles, retry_base, after_commit, follower_shard,
                               pending_join_sockets, proposed_join_sockets,
                               min_members, installed>>
    /\ UNCHANGED <<mcvars, pvars, xvars>>

\* suspected_not_equal
suspected_not_equal(n) ==
    \E r \in MemberSet(curr_view[n]) :
        \E who \in RowOf(n, r).suspected : who \notin last_suspected[n]

\* new_suspicion
NewSuspicion(n) ==
    /\ gpc[n] = "run"
    /\ "suspected_changed" \in handles[n]
    /\ ~after_commit[n]
    /\ suspected_not_equal(n)
    /\ LET v == curr_view[n]
           aggregated == UNION {RowOf(n, r).suspected : r \in MemberSet(v)}
           Newly(q) == q \in aggregated /\ q \notin last_suspected[n]
           qs == SelectSeq(v.members, Newly)
           res == suspicion_loop(n, [failed |-> v.failed,
                                     row |-> [gsst[n] EXCEPT !.suspected = aggregated],
                                     thrown |-> FALSE], qs)
       IN  IF res.thrown
           THEN Gone(n) /\ GoneKeeps
           ELSE /\ curr_view' = [curr_view EXCEPT ![n].failed = res.failed]
                /\ gsst' = [gsst EXCEPT ![n] = res.row]
                /\ last_suspected' = [last_suspected EXCEPT ![n] = @ \cup SeqToSet(qs)]
                /\ UNCHANGED <<gpc, next_view, prev_row, handles, retry_base,
                               after_commit, follower_shard, pending_join_sockets,
                               proposed_join_sockets, min_members, installed>>
    /\ UNCHANGED <<mcvars, pvars, xvars>>

(* -------------------------------- joins ------------------------------- *)
\* a client connects to member n and its socket is queued
ConnectJoin(n) ==
    /\ gpc[Joiner] = "out"
    /\ n \in GNode /\ gpc[n] # "gone"
    /\ \A m \in GNode : m < n => gpc[m] = "gone"
    /\ curr_view[n].vid < MaxVid
    /\ pending_join_sockets' = [pending_join_sockets EXCEPT ![n] = Append(@, Joiner)]
    /\ gpc' = [gpc EXCEPT ![Joiner] = "asked"]
    /\ UNCHANGED <<curr_view, next_view, gsst, prev_row, last_suspected, handles,
                   retry_base, after_commit, follower_shard, proposed_join_sockets,
                   min_members, installed>>
    /\ UNCHANGED <<mcvars, pvars, xvars>>

\* leader_start_join and receive_join
LeaderStartJoin(n) ==
    /\ gpc[n] = "run"
    /\ "start_join" \in handles[n]
    /\ ~after_commit[n]
    /\ i_am_leader(n)
    /\ pending_join_sockets[n] # <<>>
    /\ LET joining_client_id == Head(pending_join_sockets[n])
           row == gsst[n]
           next_change == row.num_changes - row.num_installed
       IN  IF \/ row.num_changes - row.num_committed = ChangesSize
              \/ next_change >= ChangesSize
           THEN Gone(n) /\ GoneKeeps
           ELSE IF rank_of(curr_view[n], joining_client_id) # -1
           THEN /\ pending_join_sockets' = [pending_join_sockets EXCEPT ![n] = Tail(@)]
                /\ gpc' = [gpc EXCEPT ![joining_client_id] = "gone"]
                /\ UNCHANGED <<curr_view, next_view, gsst, prev_row, last_suspected,
                               handles, retry_base, after_commit, follower_shard,
                               proposed_join_sockets, min_members, installed>>
           ELSE /\ pending_join_sockets' = [pending_join_sockets EXCEPT ![n] = Tail(@)]
                /\ proposed_join_sockets' =
                        [proposed_join_sockets EXCEPT ![n] = Append(@, joining_client_id)]
                /\ gsst' = [gsst EXCEPT ![n] =
                                [row EXCEPT !.changes[next_change] = joining_client_id,
                                            !.num_changes = @ + 1,
                                            !.wedged = TRUE]]
                /\ gpc' = [gpc EXCEPT ![joining_client_id] = "accepted"]
                /\ UNCHANGED <<curr_view, next_view, prev_row, last_suspected,
                               handles, retry_base, after_commit, follower_shard,
                               min_members, installed>>
    /\ UNCHANGED <<mcvars, pvars, xvars>>

\* redirect_join_attempt: LEADER_REDIRECT, the client will connect again
RedirectJoinAttempt(n) ==
    /\ gpc[n] = "run"
    /\ "reject_join" \in handles[n]
    /\ ~after_commit[n]
    /\ ~i_am_leader(n)
    /\ pending_join_sockets[n] # <<>>
    /\ pending_join_sockets' = [pending_join_sockets EXCEPT ![n] = Tail(@)]
    /\ gpc' = [gpc EXCEPT ![Head(pending_join_sockets[n])] = "out"]
    /\ UNCHANGED <<curr_view, next_view, gsst, prev_row, last_suspected, handles,
                   retry_base, after_commit, follower_shard, proposed_join_sockets,
                   min_members, installed>>
    /\ UNCHANGED <<mcvars, pvars, xvars>>

(* ----------------------- propose, acknowledge, commit ----------------- *)
\* change_commit_ready and leader_commit_change
LeaderCommitChange(n) ==
    /\ gpc[n] = "run"
    /\ "change_commit_ready" \in handles[n]
    /\ ~after_commit[n]
    /\ i_am_leader(n)
    /\ min_acked(n) > gsst[n].num_committed
    /\ gsst' = [gsst EXCEPT ![n].num_committed = min_acked(n)]
    /\ after_commit' = [after_commit EXCEPT ![n] = TRUE]
    /\ UNCHANGED <<gpc, curr_view, next_view, prev_row, last_suspected, handles,
                   retry_base, follower_shard, pending_join_sockets,
                   proposed_join_sockets, min_members, installed>>
    /\ UNCHANGED <<mcvars, pvars, xvars>>

\* leader_proposed_change and acknowledge_proposed_change
AcknowledgeProposedChange(n) ==
    /\ gpc[n] = "run"
    /\ "leader_proposed" \in handles[n]
    /\ RowOf(n, g_rank_of_leader(n)).num_changes > gsst[n].num_acked
    /\ LET leader == g_rank_of_leader(n)
           echoed == IF n # leader
                     THEN [gsst[n] EXCEPT
                             !.num_changes = RowOf(n, leader).num_changes,
                             !.changes = RowOf(n, leader).changes,
                             !.num_committed = RowOf(n, leader).num_committed]
                     ELSE gsst[n]
       IN  gsst' = [gsst EXCEPT ![n] =
                        [echoed EXCEPT !.num_acked = echoed.num_changes,
                                       !.wedged = TRUE]]
    /\ UNCHANGED <<gpc, curr_view, next_view, prev_row, last_suspected, handles,
                   retry_base, after_commit, follower_shard, pending_join_sockets,
                   proposed_join_sockets, min_members, installed>>
    /\ UNCHANGED <<mcvars, pvars, xvars>>

(* -------------------------- epoch termination ------------------------- *)
\* leader_committed_changes and start_meta_wedge
StartMetaWedge(n) ==
    /\ gpc[n] = "run"
    /\ "leader_committed" \in handles[n]
    /\ RowOf(n, g_rank_of_leader(n)).num_committed > gsst[n].num_installed
    /\ handles' = [handles EXCEPT ![n] =
                    (@ \ {"start_join", "reject_join", "change_commit_ready",
                          "leader_proposed", "leader_committed"})
                        \cup {"is_meta_wedged"}]
    /\ gsst' = [gsst EXCEPT ![n].wedged = TRUE]
    /\ after_commit' = [after_commit EXCEPT ![n] = FALSE]
    /\ UNCHANGED <<gpc, curr_view, next_view, prev_row, last_suspected, retry_base,
                   follower_shard, pending_join_sockets, proposed_join_sockets,
                   min_members, installed>>
    /\ UNCHANGED <<mcvars, pvars, xvars>>

\* variant: a member looks at its own wedged flag only
own_row_wedged(n) == gsst[n].wedged

\* the one-time predicate is_meta_wedged of start_meta_wedge
g_is_meta_wedged(n) ==
    \A m \in MemberSet(curr_view[n]) :
        m \in curr_view[n].failed \/ RowOf(n, m).wedged

\* the one-time predicate leader_committed_change of terminate_epoch
leader_committed_change(n) ==
    RowOf(n, g_rank_of_leader(n)).num_committed > retry_base[n]

\* terminate_epoch up to the first put_with_completion, fired by
\* meta_wedged_continuation or by retry_next_view
TerminateEpoch(n) ==
    /\ gpc[n] = "run"
    /\ curr_view[n].vid < MaxVid
    /\ \/ "is_meta_wedged" \in handles[n] /\ g_is_meta_wedged(n)
       \/ "retry_next_view" \in handles[n] /\ leader_committed_change(n)
    /\ LET first_call == next_view[n] = NoView
           nv == make_next_view(n)
           fired == {"is_meta_wedged", "retry_next_view"}
       IN  IF n \notin MemberSet(nv)
           THEN Gone(n) /\ GoneKeeps
           ELSE IF ~is_adequately_provisioned(nv)
           THEN /\ next_view' = [next_view EXCEPT ![n] = nv]
                /\ handles' = [handles EXCEPT ![n] =
                                ((@ \ fired)
                                    \cup (IF first_call
                                          THEN SteadyHandles \ {"leader_committed"}
                                          ELSE {}))
                                    \cup {"retry_next_view"}]
                /\ retry_base' = [retry_base EXCEPT ![n] =
                                    RowOf(n, g_rank_of_leader(n)).num_committed]
                /\ after_commit' = [after_commit EXCEPT ![n] = FALSE]
                /\ UNCHANGED <<gpc, curr_view, gsst, prev_row, last_suspected,
                               follower_shard, pending_join_sockets,
                               proposed_join_sockets, min_members, installed>>
           ELSE /\ next_view' = [next_view EXCEPT ![n] = nv]
                /\ handles' = [handles EXCEPT ![n] = @ \ fired]
                /\ gsst' = [gsst EXCEPT ![n].sync = TRUE]
                /\ gpc' = [gpc EXCEPT ![n] = "barrier"]
                /\ after_commit' = [after_commit EXCEPT ![n] = FALSE]
                /\ UNCHANGED <<curr_view, prev_row, last_suspected, retry_base,
                               follower_shard, pending_join_sockets,
                               proposed_join_sockets, min_members, installed>>
    /\ UNCHANGED <<mcvars, pvars, xvars>>

\* terminate_epoch from sync_with_members on: every member that still
\* answers reached the barrier; the shard leader publishes global_min_ready
\* (leader_ragged_edge_cleanup), any other member notes the shard in
\* follower_subgroups_and_shards; leader_global_mins_are_ready is registered
SyncWithMembers(n) ==
    /\ gpc[n] = "barrier"
    /\ \A m \in MemberSet(curr_view[n]) :
            m = n \/ m \in curr_view[n].failed \/ gpc[m] = "gone" \/ RowOf(n, m).sync
    /\ gsst' = [gsst EXCEPT ![n].global_min_ready = i_am_leader(n)]
    /\ follower_shard' = [follower_shard EXCEPT ![n] = ~i_am_leader(n)]
    /\ handles' = [handles EXCEPT ![n] = @ \cup {"leader_global_mins_are_ready"}]
    /\ gpc' = [gpc EXCEPT ![n] = "run"]
    /\ UNCHANGED <<curr_view, next_view, prev_row, last_suspected, retry_base,
                   after_commit, pending_join_sockets, proposed_join_sockets,
                   min_members, installed>>
    /\ UNCHANGED <<mcvars, pvars, xvars>>

\* leader_global_mins_are_ready and global_min_ready_continuation: the shard
\* leader is looked up when the predicate is evaluated
GlobalMinReadyContinuation(n) ==
    /\ gpc[n] = "run"
    /\ "leader_global_mins_are_ready" \in handles[n]
    /\ follower_shard[n] => RowOf(n, g_rank_of_leader(n)).global_min_ready
    /\ gsst' = [gsst EXCEPT ![n].global_min_ready = @ \/ follower_shard[n]]
    /\ handles' = [handles EXCEPT ![n] =
                    (@ \ {"leader_global_mins_are_ready"}) \cup {"persistence_finished"}]
    /\ after_commit' = [after_commit EXCEPT ![n] = FALSE]
    /\ UNCHANGED <<gpc, curr_view, next_view, prev_row, last_suspected, retry_base,
                   follower_shard, pending_join_sockets, proposed_join_sockets,
                   min_members, installed>>
    /\ UNCHANGED <<mcvars, pvars, xvars>>

\* finish_view_change up to transition_multicast_group: the predicates are
\* removed and the leader sends next_view to one socket of
\* proposed_join_sockets per joined member. front() of an empty list is
\* undefined: with proceeds the member goes on without that socket,
\* otherwise its process ends
FinishViewChange(n, proceeds) ==
    /\ gpc[n] = "run"
    /\ "persistence_finished" \in handles[n]
    /\ LET nv == next_view[n]
           wanted == IF i_am_leader(n) THEN Len(nv.joined) ELSE 0
           have == Len(proposed_join_sockets[n])
           num_sent == Min({wanted, have})
           clients == {proposed_join_sockets[n][i] : i \in 1..num_sent}
       IN  IF wanted > have /\ ~proceeds
           THEN Gone(n) /\ GoneKeeps
           ELSE /\ gpc' = [m \in AllId |->
                            IF m = n \/ m \in clients THEN "handshake" ELSE gpc[m]]
                /\ next_view' = [m \in AllId |->
                            IF m \in clients THEN nv ELSE next_view[m]]
                /\ proposed_join_sockets' =
                        [proposed_join_sockets EXCEPT ![n] = SubSeq(@, num_sent + 1, have)]
                /\ handles' = [handles EXCEPT ![n] = {}]
                /\ after_commit' = [after_commit EXCEPT ![n] = FALSE]
                /\ UNCHANGED <<curr_view, gsst, prev_row, last_suspected, retry_base,
                               follower_shard, pending_join_sockets, min_members,
                               installed>>
    /\ UNCHANGED <<mcvars, pvars, xvars>>

\* member m answers the SST and RDMC handshakes of member n for view vid
Responds(m, n, vid) ==
    /\ gpc[m] # "gone"
    /\ \/ gpc[m] = "handshake" /\ next_view[m].vid = vid
            /\ n \in MemberSet(next_view[m])
       \/ curr_view[m].vid = vid /\ n \in MemberSet(curr_view[m])

\* finish_view_change from transition_multicast_group on: every member of
\* next_view not marked failed answered; the row is initialised from the old
\* one, next_view becomes curr_view and the predicates are registered
Install(n) ==
    /\ n \in GNode
    /\ gpc[n] = "handshake"
    /\ curr_view[n].vid >= 0
    /\ LET nv == next_view[n]
       IN  /\ \A m \in MemberSet(nv) \ {n} : m \in nv.failed \/ Responds(m, n, nv.vid)
           /\ prev_row' = [prev_row EXCEPT ![n] = gsst[n]]
           /\ gsst' = [gsst EXCEPT ![n] =
                        init_local_row_from_previous(gsst[n], changes_installed(nv))]
           /\ curr_view' = [curr_view EXCEPT ![n] = nv]
           /\ installed' = [installed EXCEPT ![n] = Append(@, nv)]
    /\ next_view' = [next_view EXCEPT ![n] = NoView]
    /\ last_suspected' = [last_suspected EXCEPT ![n] = {}]
    /\ handles' = [handles EXCEPT ![n] = SteadyHandles]
    /\ gpc' = [gpc EXCEPT ![n] = "run"]
    /\ follower_shard' = [follower_shard EXCEPT ![n] = FALSE]
    /\ retry_base' = [retry_base EXCEPT ![n] = 0]
    /\ UNCHANGED <<after_commit, pending_join_sockets, proposed_join_sockets,
                   min_members>>
    /\ UNCHANGED <<mcvars, pvars, xvars>>

\* DerechoSST::init_local_change_proposals: copy the leader's change list and
\* counters
init_local_change_proposals(leader_row) ==
    [BlankRow EXCEPT !.changes = leader_row.changes,
                     !.num_changes = leader_row.num_changes,
                     !.num_committed = leader_row.num_committed,
                     !.num_acked = leader_row.num_acked,
                     !.num_installed = leader_row.num_installed]

\* finish_setup at a joining process that received its first view
FinishSetup(j) ==
    /\ gpc[j] = "handshake"
    /\ curr_view[j].vid = -1
    /\ LET nv == next_view[j]
           leader == leader_id(nv, nv.failed)
       IN  /\ \A m \in MemberSet(nv) \ {j} : m \in nv.failed \/ Responds(m, j, nv.vid)
           /\ gsst' = [gsst EXCEPT ![j] =
                        IF nv.vid # 0 /\ j # leader
                        THEN init_local_change_proposals(RowAt(nv.vid, leader))
                        ELSE BlankRow]
           /\ curr_view' = [curr_view EXCEPT ![j] = nv]
           /\ installed' = [installed EXCEPT ![j] = Append(@, nv)]
    /\ next_view' = [next_view EXCEPT ![j] = NoView]
    /\ handles' = [handles EXCEPT ![j] = SteadyHandles]
    /\ gpc' = [gpc EXCEPT ![j] = "run"]
    /\ UNCHANGED <<prev_row, last_suspected, retry_base, after_commit,
                   follower_shard, pending_join_sockets, proposed_join_sockets,
                   min_members>>
    /\ UNCHANGED <<mcvars, pvars, xvars>>

GNext ==
    \/ \E q \in GNode : GCrash(q)
    \/ \E n \in AllId, q \in AllId : ReportFailure(n, q)
    \/ \E n \in AllId : NewSuspicion(n)
    \/ \E n \in AllId : ConnectJoin(n)
    \/ \E n \in AllId : LeaderStartJoin(n)
    \/ \E n \in AllId : RedirectJoinAttempt(n)
    \/ \E n \in AllId : LeaderCommitChange(n)
    \/ \E n \in AllId : AcknowledgeProposedChange(n)
    \/ \E n \in AllId : StartMetaWedge(n)
    \/ \E n \in AllId : TerminateEpoch(n)
    \/ \E n \in AllId : SyncWithMembers(n)
    \/ \E n \in AllId : GlobalMinReadyContinuation(n)
    \/ \E n \in AllId, proceeds \in BOOLEAN : FinishViewChange(n, proceeds)
    \/ \E n \in AllId : Install(n)
    \/ \E j \in AllId : FinishSetup(j)

(* ----------------------- the partition rule alone --------------------- *)
\* largest view the partition rule is applied to
MaxMembers == 5

PInit ==
    /\ p_num_members \in 2..MaxMembers
    /\ p_num_left \in 0..(p_num_members - 1)
    /\ p_rip \in BOOLEAN
    /\ p_num_failed \in 0..(p_num_members - 1)
    /\ p_thrown = FALSE

\* one round of the loop of new_suspicion for a newly suspected member: the
\* check before the member is marked failed, Vc.num_failed++, the check after
PartNewSuspicion ==
    /\ ~p_thrown
    /\ p_num_failed < p_num_members
    /\ IF partition_rule(p_rip, p_num_failed, p_num_left, p_num_members)
       THEN /\ p_thrown' = TRUE
            /\ UNCHANGED p_num_failed
       ELSE /\ p_num_failed' = p_num_failed + 1
            /\ p_thrown' = partition_rule(p_rip, p_num_failed + 1, p_num_left,
                                          p_num_members)
    /\ UNCHANGED <<p_num_members, p_num_left, p_rip>>
    /\ UNCHANGED <<mcvars, gvars, xvars>>

\* leave() at another member: one more row has its rip flag set
PartLeave ==
    /\ ~p_thrown
    /\ p_num_left < p_num_members - 1
    /\ p_num_left' = p_num_left + 1
    /\ UNCHANGED <<p_num_members, p_rip, p_num_failed, p_thrown>>
    /\ UNCHANGED <<mcvars, gvars, xvars>>

PartNext == PartNewSuspicion \/ PartLeave

(* ============ flow control: the window of a sender ==================== *)
\* number of messages a sender may originate in the flow-control model
MaxWinIndex == 4
\* the member that sends in the UNORDERED subgroup
USender == 0

UInit ==
    /\ mode \in {"ORDERED", "UNORDERED"}
    /\ u_sent = <<>>
    /\ u_rdmc_sent = 0
    /\ u_got = [m \in Node |-> [tr \in {"sst", "rdmc"} |-> 0]]
    /\ u_ri = [m \in Node |-> <<-1, -1>>]
    /\ u_nr = [m \in Node |-> -1]
    /\ u_seen = [m \in Node |-> -1]

\* get_sendbuffer_ptr, UNORDERED branch: the sender's copy of every member's
\* num_received entry for the sender is at least future_message_indices -
\* window_size
UWindowOpen ==
    \A m \in Node : ~(u_seen[m] < Len(u_sent) - window_size)

\* MulticastGroup::send in UNORDERED mode: the message takes the next index
USend(tr) ==
    /\ mode = "UNORDERED"
    /\ Len(u_sent) < MaxWinIndex
    /\ UWindowOpen
    /\ u_sent' = Append(u_sent, tr)
    /\ UNCHANGED <<mode, u_rdmc_sent, u_got, u_ri, u_nr, u_seen>>
    /\ UNCHANGED <<mcvars, gvars, pvars, rvars, dvars, svars, jvars, yvars>>

\* send_loop, UNORDERED branch of should_send_to_subgroup
USendLoop ==
    /\ mode = "UNORDERED"
    /\ u_rdmc_sent < Cardinality({p \in 1..Len(u_sent) : u_sent[p] = "rdmc"})
    /\ LET index == (CHOOSE p \in 1..Len(u_sent) :
                        /\ u_sent[p] = "rdmc"
                        /\ Cardinality({q \in 1..(p - 1) : u_sent[q] = "rdmc"})
                                = u_rdmc_sent) - 1
       IN  /\ ~(u_nr[USender] < index - 1)
           /\ \A m \in Node : ~(u_seen[m] < Len(u_sent) - 1 - window_size)
    /\ u_rdmc_sent' = u_rdmc_sent + 1
    /\ UNCHANGED <<mode, u_sent, u_got, u_ri, u_nr, u_seen>>
    /\ UNCHANGED <<mcvars, gvars, pvars, rvars, dvars, svars, jvars, yvars>>

\* rdmc_receive_handler / sst_receive_handler in UNORDERED mode at member m
\* for the next message of the sender on transport tr: no NULL is sent, the
\* message is handed up at once and num_received becomes the contiguous count
UReceive(m, tr) ==
    /\ mode = "UNORDERED"
    /\ u_got[m][tr] < (IF tr = "rdmc" THEN u_rdmc_sent
                       ELSE Cardinality({p \in 1..Len(u_sent) : u_sent[p] = "sst"}))
    /\ LET index == (CHOOSE p \in 1..Len(u_sent) :
                        /\ u_sent[p] = tr
                        /\ Cardinality({q \in 1..(p - 1) : u_sent[q] = tr})
                                = u_got[m][tr]) - 1
           list == resolve_list(u_ri[m], index)
       IN  /\ u_ri' = [u_ri EXCEPT ![m] = list]
           /\ u_nr' = [u_nr EXCEPT ![m] = list[2]]
           /\ u_seen' = IF m = USender THEN [u_seen EXCEPT ![m] = list[2]]
                        ELSE u_seen
    /\ u_got' = [u_got EXCEPT ![m][tr] = @ + 1]
    /\ UNCHANGED <<mode, u_sent, u_rdmc_sent>>
    /\ UNCHANGED <<mcvars, gvars, pvars, rvars, dvars, svars, jvars, yvars>>

\* the put of num_received by member m reaches the sender
UPut(m) ==
    /\ mode = "UNORDERED"
    /\ m # USender
    /\ u_seen[m] # u_nr[m]
    /\ u_seen' = [u_seen EXCEPT ![m] = u_nr[m]]
    /\ UNCHANGED <<mode, u_sent, u_rdmc_sent, u_got, u_ri, u_nr>>
    /\ UNCHANGED <<mcvars, gvars, pvars, rvars, dvars, svars, jvars, yvars>>

\* steady state of one ORDERED shard (sender 0 sends large messages, sender 1
\* small ones) or of one UNORDERED shard, with more indices than the window
WinNext ==
    \/ \E n \in Node :
        mode = "ORDERED"
            /\ McSend(n, IF n = 0 THEN "rdmc" ELSE "sst", MaxWinIndex)
    \/ \E n \in Node : mode = "ORDERED" /\ SendLoop(n)
    \/ \E n \in Node, s \in Senders : mode = "ORDERED" /\ RdmcReceive(n, s)
    \/ \E n \in Node : mode = "ORDERED" /\ ReceiverTrig(n)
    \/ \E n \in Node : mode = "ORDERED" /\ DeliveryTrig(n)
    \/ \E tr \in {"sst", "rdmc"} : USend(tr)
    \/ USendLoop
    \/ \E m \in Node, tr \in {"sst", "rdmc"} : UReceive(m, tr)
    \/ \E m \in Node : UPut(m)

(* ------------------ delivery upcalls and versions --------------------- *)
\* messages one view of the member takes
MaxDMsgs == 3
\* the last vid the member installs
MaxDVid == 2
\* width of the sequence-number half of a version; 32 in the code
SeqBits == 3
SeqRadix == 2 ^ SeqBits

\* variant: the version is the sequence number alone
combine_low_only(high_bits, low_bits) == low_bits % SeqRadix

\* persistent::combine_int32s: the vid in the high half of the version, the
\* sequence number in the low half
combine_int32s(high_bits, low_bits) == high_bits * SeqRadix + (low_bits % SeqRadix)

\* persistent::unpack_version: the two halves of a version
unpack_version(version) == <<version \div SeqRadix, version % SeqRadix>>

\* what delivery looks at in a message: header.cooked_send and whether
\* msg.size > header_size. A NULL message has neither.
DMsg == [cooked_send : BOOLEAN, payload : BOOLEAN]
IsNull(msg) == ~msg.cooked_send /\ ~msg.payload

Upcall(op, seq_num, version) == [op |-> op, seq |-> seq_num, version |-> version]

\* variant: post_next_version is called for every message with a payload
deliver_message_posting(msg, seq_num, version) ==
    IF msg.cooked_send \/ msg.payload
    THEN <<Upcall("post_next_version", seq_num, version)>>
         \o (IF msg.cooked_send
             THEN <<Upcall("rpc_callback", seq_num, version)>>
             ELSE <<>>)
         \o (IF d_stability
             THEN <<Upcall("global_stability_callback", seq_num, version)>>
             ELSE <<>>)
    ELSE <<>>

\* deliver_message, the same for an RDMCMessage and an SSTMessage: the
\* upcalls it makes, in order
deliver_message(msg, seq_num, version) ==
    IF msg.cooked_send
    THEN <<Upcall("post_next_version", seq_num, version),
           Upcall("rpc_callback", seq_num, version)>>
         \o (IF d_stability
             THEN <<Upcall("global_stability_callback", seq_num, version)>>
             ELSE <<>>)
    ELSE IF msg.payload /\ d_stability
         THEN <<Upcall("global_stability_callback", seq_num, version)>>
         ELSE <<>>

\* variant: the null message filter is missing
version_message_unfiltered(msg, seq_num, version) ==
    [made |-> TRUE, log |-> <<Upcall("make_version", seq_num, version)>>]

\* version_message, the same for both kinds of message: its result and the
\* upcall it makes
version_message(msg, seq_num, version) ==
    IF ~msg.payload
    THEN [made |-> FALSE, log |-> <<>>]
    ELSE [made |-> TRUE, log |-> <<Upcall("make_version", seq_num, version)>>]

\* the loop of delivery_trigger and of deliver_messages_upto over the
\* locally stable messages seq_num..upto, least sequence number first: each
\* gets assigned_version, deliver_message and then version_message
RECURSIVE deliver_loop(_, _, _)
deliver_loop(acc, seq_num, upto) ==
    IF seq_num > upto THEN acc
    ELSE LET msg == d_msgs[seq_num + 1]
             assigned_version == combine_int32s(d_vid, seq_num)
             versioned == version_message(msg, seq_num, assigned_version)
         IN  deliver_loop(
                [log |-> acc.log \o deliver_message(msg, seq_num, assigned_version)
                                 \o versioned.log,
                 non_null_msgs_delivered |->
                        acc.non_null_msgs_delivered \/ versioned.made,
                 assigned_version |-> assigned_version,
                 delivered_num |-> seq_num,
                 versions |-> Append(acc.versions, assigned_version)],
                seq_num + 1, upto)

\* the locals of a delivery before its loop; assigned_version starts as
\* INVALID_VERSION
DeliveryStart ==
    [log |-> <<>>, non_null_msgs_delivered |-> FALSE, assigned_version |-> -1,
     delivered_num |-> d_delivered_num, versions |-> <<>>]

\* the post_persist request that ends a delivery
PostPersist(r, upto) ==
    IF r.non_null_msgs_delivered
    THEN <<Upcall("post_persist", upto, r.assigned_version)>>
    ELSE <<>>

DInit ==
    /\ d_vid \in 0..1
    /\ d_joined = d_vid
    /\ d_stability \in BOOLEAN
    /\ d_msgs = <<>>
    /\ d_delivered_num = -1
    /\ d_upto = -1
    /\ d_log = <<>>
    /\ d_versions = <<>>
    /\ d_phase = "running"

\* a message of the view becomes locally stable at the member; the next
\* sequence number is its own
DStable(msg) ==
    /\ d_phase = "running"
    /\ Len(d_msgs) < MaxDMsgs
    /\ d_msgs' = Append(d_msgs, msg)
    /\ UNCHANGED <<d_vid, d_joined, d_stability, d_delivered_num, d_upto, d_log,
                   d_versions, d_phase>>
    /\ UNCHANGED <<mcvars, gvars, pvars, uvars, rvars, svars, jvars, yvars>>

\* delivery_trigger with something to deliver: every locally stable message
\* up to stable_num, the value of min_stable_num, is delivered, delivered_num is published and
\* post_persist is requested if a version was made
DDeliveryTrigger(stable_num) ==
    /\ d_phase = "running"
    /\ stable_num > d_delivered_num
    /\ stable_num < Len(d_msgs)
    /\ LET r == deliver_loop(DeliveryStart, d_delivered_num + 1, stable_num)
       IN  /\ d_log' = r.log \o PostPersist(r, stable_num)
           /\ d_versions' = d_versions \o r.versions
           /\ d_delivered_num' = r.delivered_num
    /\ d_upto' = stable_num
    /\ UNCHANGED <<d_vid, d_joined, d_stability, d_msgs, d_phase>>
    /\ UNCHANGED <<mcvars, gvars, pvars, uvars, rvars, svars, jvars, yvars>>

\* the view is wedged: the delivery predicate is gone
DWedge ==
    /\ d_phase = "running"
    /\ d_phase' = "wedged"
    /\ UNCHANGED <<d_vid, d_joined, d_stability, d_msgs, d_delivered_num, d_upto,
                   d_log, d_versions>>
    /\ UNCHANGED <<mcvars, gvars, pvars, uvars, rvars, svars, jvars, yvars>>

\* deliver_messages_upto during the ragged-edge cleanup, for the trim
\* trim_seq_num, the value of max_seq_num (no sequence number of the range is
\* skipped here; the skipping is in DeliverMessagesUpto)
DDeliverMessagesUpto(trim_seq_num) ==
    /\ d_phase = "wedged"
    /\ trim_seq_num >= d_delivered_num
    /\ trim_seq_num < Len(d_msgs)
    /\ LET r == deliver_loop(DeliveryStart, d_delivered_num + 1, trim_seq_num)
       IN  /\ d_log' = r.log \o PostPersist(r, trim_seq_num)
           /\ d_versions' = d_versions \o r.versions
    /\ d_delivered_num' = trim_seq_num
    /\ d_upto' = trim_seq_num
    /\ d_phase' = "cleaned"
    /\ UNCHANGED <<d_vid, d_joined, d_stability, d_msgs>>
    /\ UNCHANGED <<mcvars, gvars, pvars, uvars, rvars, svars, jvars, yvars>>

\* transition_multicast_group: the SST of the next view gets the next vid in
\* the member's row and the engine of the next view starts with no message
DInstall ==
    /\ d_phase = "cleaned"
    /\ d_vid < MaxDVid
    /\ d_vid' = d_vid + 1
    /\ d_msgs' = <<>>
    /\ d_delivered_num' = -1
    /\ d_upto' = -1
    /\ d_log' = <<>>
    /\ d_phase' = "running"
    /\ UNCHANGED <<d_joined, d_stability, d_versions>>
    /\ UNCHANGED <<mcvars, gvars, pvars, uvars, rvars, svars, jvars, yvars>>

DeliverNext ==
    \/ \E msg \in DMsg : DStable(msg)
    \/ \E stable_num \in 0..(MaxDMsgs - 1) : DDeliveryTrigger(stable_num)
    \/ DWedge
    \/ \E trim_seq_num \in -1..(MaxDMsgs - 1) : DDeliverMessagesUpto(trim_seq_num)
    \/ DInstall

(* ------------------- await_first_view / receive_configuration --------- *)
\* joining processes that crash
MaxSCrash == 2
\* the leader of the first view, the processes that join under their own id
\* and one more process that claims the id of the leader
SLeader == 0
SJoiner == {1, 2, 3}
SDup == 4
SProc == SJoiner \cup {SDup}
JoinerId(p) == IF p = SDup THEN SLeader ELSE p

\* View::rank_of on the member list of the first view, -1 if absent
s_rank_of(members, id) ==
    IF \E i \in 1..Len(members) : members[i] = id
    THEN (CHOOSE i \in 1..Len(members) : members[i] = id) - 1
    ELSE -1

\* is_adequately_provisioned as make_subgroup_maps leaves it for a first view
s_adequate(members) == Len(members) >= s_min

\* std::remove_copy of the failed joiner from the member list
filtered_members(members, failed_joiner_id) ==
    SelectSeq(members, LAMBDA m : m # failed_joiner_id)

ViewMsg(members) == [kind |-> "view", members |-> members, commit |-> FALSE]
CommitMsg(b) == [kind |-> "commit", members |-> <<>>, commit |-> b]

\* variant: every view that was sent is confirmed
commit_always(joiner_failed) == TRUE

\* the bool written to each of members_sent_view at the end of a round
commit_flag(joiner_failed) == ~joiner_failed

SInit ==
    /\ s_min \in {2, 3}
    /\ s_view = <<SLeader>>
    /\ s_waiting = {}
    /\ s_sent = {}
    /\ s_pc = "accept"
    /\ s_alive = SProc
    /\ s_out = [p \in SProc |-> <<>>]
    /\ s_read = [p \in SProc |-> 0]
    /\ s_jpc = [p \in SProc |-> "out"]
    /\ s_jview = [p \in SProc |-> <<>>]
    /\ s_removed = {}

\* await_first_view, one turn of the inner loop: process p connects and
\* sends its id; an id of the view is answered ID_IN_USE, any other is
\* appended to the view and its socket is kept in waiting_join_sockets
SAccept(p) ==
    /\ s_pc = "accept"
    /\ p \in s_alive
    /\ s_jpc[p] = "out"
    /\ IF s_rank_of(s_view, JoinerId(p)) # -1
       THEN /\ s_jpc' = [s_jpc EXCEPT ![p] = "refused"]
            /\ UNCHANGED <<s_view, s_waiting, s_pc>>
       ELSE LET members == Append(s_view, JoinerId(p))
            IN  /\ s_view' = members
                /\ s_waiting' = s_waiting \cup {p}
                /\ s_jpc' = [s_jpc EXCEPT ![p] = "await_view"]
                /\ s_pc' = IF s_adequate(members) THEN "send" ELSE "accept"
    /\ UNCHANGED <<s_min, s_sent, s_alive, s_out, s_read, s_jview, s_removed>>
    /\ UNCHANGED <<mcvars, gvars, pvars, uvars, rvars, dvars, jvars, yvars>>

\* the joiner the loop over waiting_join_sockets is at (map order)
NextWaiting == Min(s_waiting \ s_sent)

\* await_first_view, one turn of the loop over waiting_join_sockets with
\* every write succeeding: the view and the parameters go to the joiner
SSendView ==
    /\ s_pc = "send"
    /\ s_waiting \ s_sent # {}
    /\ NextWaiting \in s_alive
    /\ s_out' = [s_out EXCEPT ![NextWaiting] = Append(@, ViewMsg(s_view))]
    /\ s_sent' = s_sent \cup {NextWaiting}
    /\ UNCHANGED <<s_min, s_view, s_waiting, s_pc, s_alive, s_read, s_jpc, s_jview,
                   s_removed>>
    /\ UNCHANGED <<mcvars, gvars, pvars, uvars, rvars, dvars, jvars, yvars>>

\* await_first_view, a write to the joiner fails: the catch block takes the
\* joiner out of the view and of waiting_join_sockets and leaves the loop,
\* every member of members_sent_view is written commit_flag(TRUE), and the
\* outer loop starts over
SSendFails ==
    /\ s_pc = "send"
    /\ s_waiting \ s_sent # {}
    /\ NextWaiting \notin s_alive
    /\ LET members == filtered_members(s_view, NextWaiting)
       IN  /\ s_view' = members
           /\ s_pc' = IF s_adequate(members) THEN "send" ELSE "accept"
    /\ s_waiting' = s_waiting \ {NextWaiting}
    /\ s_removed' = s_removed \cup {NextWaiting}
    /\ s_out' = [p \in SProc |->
                    IF p \in s_sent THEN Append(s_out[p], CommitMsg(commit_flag(TRUE)))
                    ELSE s_out[p]]
    /\ s_sent' = {}
    /\ UNCHANGED <<s_min, s_alive, s_read, s_jpc, s_jview>>
    /\ UNCHANGED <<mcvars, gvars, pvars, uvars, rvars, dvars, jvars, yvars>>

\* await_first_view, the loop over waiting_join_sockets ended without a
\* failed write: every member of members_sent_view is written
\* commit_flag(FALSE), the outer loop ends and the sockets are closed
SCommit ==
    /\ s_pc = "send"
    /\ s_waiting \ s_sent = {}
    /\ s_out' = [p \in SProc |->
                    IF p \in s_sent THEN Append(s_out[p], CommitMsg(commit_flag(FALSE)))
                    ELSE s_out[p]]
    /\ s_sent' = {}
    /\ s_waiting' = {}
    /\ s_pc' = "decided"
    /\ UNCHANGED <<s_min, s_view, s_alive, s_read, s_jpc, s_jview, s_removed>>
    /\ UNCHANGED <<mcvars, gvars, pvars, uvars, rvars, dvars, jvars, yvars>>

\* receive_configuration, the loop while(!view_confirmed): the joiner reads
\* the view and the parameters
JReadView(p) ==
    /\ p \in s_alive
    /\ s_jpc[p] = "await_view"
    /\ s_read[p] < Len(s_out[p])
    /\ s_jview' = [s_jview EXCEPT ![p] = s_out[p][s_read[p] + 1].members]
    /\ s_read' = [s_read EXCEPT ![p] = @ + 1]
    /\ s_jpc' = [s_jpc EXCEPT ![p] = "await_commit"]
    /\ UNCHANGED <<s_min, s_view, s_waiting, s_sent, s_pc, s_alive, s_out, s_removed>>
    /\ UNCHANGED <<mcvars, gvars, pvars, uvars, rvars, dvars, jvars, yvars>>

\* receive_configuration: the joiner reads view_confirmed; if it is true the
\* loop ends and curr_view is the first view of the joiner
JReadCommit(p) ==
    /\ p \in s_alive
    /\ s_jpc[p] = "await_commit"
    /\ s_read[p] < Len(s_out[p])
    /\ s_read' = [s_read EXCEPT ![p] = @ + 1]
    /\ s_jpc' = [s_jpc EXCEPT ![p] =
                    IF s_out[p][s_read[p] + 1].commit THEN "confirmed" ELSE "await_view"]
    /\ UNCHANGED <<s_min, s_view, s_waiting, s_sent, s_pc, s_alive, s_out, s_jview,
                   s_removed>>
    /\ UNCHANGED <<mcvars, gvars, pvars, uvars, rvars, dvars, jvars, yvars>>

\* a joining process crashes
SCrash(p) ==
    /\ p \in s_alive
    /\ p \in SJoiner
    /\ Cardinality(SProc \ s_alive) < MaxSCrash
    /\ s_alive' = s_alive \ {p}
    /\ UNCHANGED <<s_min, s_view, s_waiting, s_sent, s_pc, s_out, s_read, s_jpc,
                   s_jview, s_removed>>
    /\ UNCHANGED <<mcvars, gvars, pvars, uvars, rvars, dvars, jvars, yvars>>

SetupNext ==
    \/ \E p \in SProc : SAccept(p)
    \/ SSendView
    \/ SSendFails
    \/ SCommit
    \/ \E p \in SProc : JReadView(p)
    \/ \E p \in SProc : JReadCommit(p)
    \/ \E p \in SProc : SCrash(p)

(* ------------------- leader_start_join / receive_join ----------------- *)
\* the clients that ask to join: client 5 announces the id of a member of
\* the first view, client 6 the id that client 1 announces, the others ids
\* that no member and no other client has
JClient == 1..6
client_id(c) == IF c = 5 THEN 2 ELSE IF c = 6 THEN 3 ELSE c + 2

\* receive_join on the leader's row: what the call comes to and the row it
\* leaves. The test before the write compares num_changes - num_committed
\* with the size of changes[], the write is at num_changes - num_installed:
\* with a slot past the end of changes[] the store falls outside the list
\* and the counter grows all the same.
receive_join(row, view, joining_client_id) ==
    LET next_change == row.num_changes - row.num_installed
    IN  IF row.num_changes - row.num_committed = ChangesSize
        THEN [outcome |-> "exception", row |-> row]
        ELSE IF rank_of(view, joining_client_id) # -1
        THEN [outcome |-> "ID_IN_USE", row |-> row]
        ELSE IF next_change >= ChangesSize
        THEN [outcome |-> "past_the_end",
              row |-> [row EXCEPT !.num_changes = @ + 1, !.wedged = TRUE]]
        ELSE [outcome |-> "OK",
              row |-> [row EXCEPT !.changes[next_change] = joining_client_id,
                                  !.num_changes = @ + 1,
                                  !.wedged = TRUE]]

JInit ==
    /\ j_view = InitialView
    /\ j_row = BlankRow
    /\ j_acked = 0
    /\ j_pending = <<>>
    /\ j_proposed = <<>>
    /\ j_client = [c \in JClient |-> "out"]
    /\ j_leader = "run"

\* the listener thread of the leader accepts the connection of client c
JConnect(c) ==
    /\ j_leader = "run"
    /\ j_client[c] = "out"
    /\ j_pending' = Append(j_pending, c)
    /\ j_client' = [j_client EXCEPT ![c] = "asked"]
    /\ UNCHANGED <<j_view, j_row, j_acked, j_proposed, j_leader>>
    /\ UNCHANGED <<mcvars, gvars, pvars, uvars, rvars, dvars, svars, yvars>>

\* leader_start_join: the oldest pending socket moves to
\* proposed_join_sockets and receive_join runs on it; a false result drops
\* the socket, an exception ends the leader and with it every connection;
\* a leader that stored outside changes[] is followed no further
JLeaderStartJoin ==
    /\ j_leader = "run"
    /\ j_pending # <<>>
    /\ LET c == Head(j_pending)
           r == receive_join(j_row, j_view, client_id(c))
       IN  IF r.outcome \in {"exception", "past_the_end"}
           THEN /\ j_leader' = "gone"
                /\ j_pending' = <<>>
                /\ j_proposed' = <<>>
                /\ j_client' = [d \in JClient |->
                                    IF j_client[d] \in {"asked", "accepted"}
                                    THEN "broken" ELSE j_client[d]]
                /\ UNCHANGED j_row
           ELSE /\ j_pending' = Tail(j_pending)
                /\ j_row' = r.row
                /\ j_proposed' = IF r.outcome = "OK" THEN Append(j_proposed, c)
                                 ELSE j_proposed
                /\ j_client' = [j_client EXCEPT ![c] =
                                    IF r.outcome = "OK" THEN "accepted" ELSE "refused"]
                /\ UNCHANGED j_leader
    /\ UNCHANGED <<j_view, j_acked>>
    /\ UNCHANGED <<mcvars, gvars, pvars, uvars, rvars, dvars, svars, yvars>>

\* acknowledge_proposed_change at the member that is last to acknowledge
JAcknowledge ==
    /\ j_leader = "run"
    /\ j_acked < j_row.num_changes
    /\ j_acked' = j_acked + 1
    /\ UNCHANGED <<j_view, j_row, j_pending, j_proposed, j_client, j_leader>>
    /\ UNCHANGED <<mcvars, gvars, pvars, uvars, rvars, dvars, svars, yvars>>

\* change_commit_ready and leader_commit_change
JLeaderCommitChange ==
    /\ j_leader = "run"
    /\ j_acked > j_row.num_committed
    /\ j_row' = [j_row EXCEPT !.num_committed = j_acked]
    /\ UNCHANGED <<j_view, j_acked, j_pending, j_proposed, j_client, j_leader>>
    /\ UNCHANGED <<mcvars, gvars, pvars, uvars, rvars, dvars, svars, yvars>>

\* the view change for the committed changes, from start_meta_wedge to
\* finish_view_change, seen from the leader: the committed joiners become
\* members, their sockets are used up and the row of the next view starts
\* from the old one
JInstall ==
    /\ j_leader = "run"
    /\ j_row.num_committed > j_row.num_installed
    /\ LET k == j_row.num_committed - j_row.num_installed
           joined == [i \in 1..k |-> j_row.changes[i - 1]]
       IN  /\ j_view' = [vid |-> j_view.vid + 1, members |-> j_view.members \o joined,
                         failed |-> {}, joined |-> joined, departed |-> <<>>]
           /\ j_row' = init_local_row_from_previous(j_row, k)
           /\ j_proposed' = SubSeq(j_proposed, k + 1, Len(j_proposed))
           /\ j_client' = [c \in JClient |->
                              IF \E i \in 1..k : j_proposed[i] = c
                              THEN "member" ELSE j_client[c]]
    /\ UNCHANGED <<j_acked, j_pending, j_leader>>
    /\ UNCHANGED <<mcvars, gvars, pvars, uvars, rvars, dvars, svars, yvars>>

JoinNext ==
    \/ \E c \in JClient : JConnect(c)
    \/ JLeaderStartJoin
    \/ JAcknowledge
    \/ JLeaderCommitChange
    \/ JInstall

(* ------------------------- leave / new_suspicion ---------------------- *)
\* members of the largest view of the leave model
MaxLMembers == 3

LMember == 0..(l_num_members - 1)

LInit ==
    /\ l_num_members \in 2..MaxLMembers
    /\ l_left = {}
    /\ l_suspected = [p \in 0..(MaxLMembers - 1) |-> {}]
    /\ l_rip = [p \in 0..(MaxLMembers - 1) |-> {}]
    /\ l_last_suspected = [p \in 0..(MaxLMembers - 1) |-> {}]
    /\ l_thrown = {}

\* leave() at member m: suspected[myRank][myRank] is set and put, then
\* rip[myRank] is set and put with completion; its predicates are gone
LLeave(m) ==
    /\ m \in LMember \ (l_left \cup l_thrown)
    /\ Cardinality(LMember \ l_left) > 1
    /\ l_left' = l_left \cup {m}
    /\ UNCHANGED <<l_num_members, l_suspected, l_rip, l_last_suspected, l_thrown>>
    /\ UNCHANGED NotL

\* the suspected flag of leaver m becomes visible in the SST of member p
LSeeSuspected(p, m) ==
    /\ p \in LMember \ (l_left \cup l_thrown)
    /\ m \in l_left \ l_suspected[p]
    /\ l_suspected' = [l_suspected EXCEPT ![p] = @ \cup {m}]
    /\ UNCHANGED <<l_num_members, l_left, l_rip, l_last_suspected, l_thrown>>
    /\ UNCHANGED NotL

\* the rip flag of leaver m becomes visible in the SST of member p; the put
\* of the suspected flag came first
LSeeRip(p, m) ==
    /\ p \in LMember \ (l_left \cup l_thrown)
    /\ m \in l_suspected[p] \ l_rip[p]
    /\ l_rip' = [l_rip EXCEPT ![p] = @ \cup {m}]
    /\ UNCHANGED <<l_num_members, l_left, l_suspected, l_last_suspected, l_thrown>>
    /\ UNCHANGED NotL

\* the loop of new_suspicion at a member without failures other than the
\* leavers: for each newly suspected q, in rank order, the partition check,
\* Vc.num_failed++, and the partition check again
RECURSIVE leave_loop(_, _, _)
leave_loop(st, num_left, qs) ==
    IF qs = <<>> \/ st.thrown THEN st
    ELSE LET before == partition_rule(FALSE, st.num_failed, num_left, l_num_members)
             after == partition_rule(FALSE, st.num_failed + 1, num_left, l_num_members)
         IN  IF before THEN [st EXCEPT !.thrown = TRUE]
             ELSE leave_loop([num_failed |-> st.num_failed + 1, thrown |-> after],
                             num_left, Tail(qs))

\* new_suspicion at member p, fired by suspected_changed
LNewSuspicion(p) ==
    /\ p \in LMember \ (l_left \cup l_thrown)
    /\ l_suspected[p] \ l_last_suspected[p] # {}
    /\ LET qs == SortedSeq(l_suspected[p] \ l_last_suspected[p])
           res == leave_loop([num_failed |-> Cardinality(l_last_suspected[p]),
                              thrown |-> FALSE],
                             Cardinality(l_rip[p]), qs)
       IN  IF res.thrown
           THEN /\ l_thrown' = l_thrown \cup {p}
                /\ UNCHANGED l_last_suspected
           ELSE /\ l_last_suspected' =
                        [l_last_suspected EXCEPT ![p] = l_suspected[p]]
                /\ UNCHANGED l_thrown
    /\ UNCHANGED <<l_num_members, l_left, l_suspected, l_rip>>
    /\ UNCHANGED NotL

LeaveNext ==
    \/ \E m \in 0..(MaxLMembers - 1) : LLeave(m)
    \/ \E p, m \in 0..(MaxLMembers - 1) : LSeeSuspected(p, m)
    \/ \E p, m \in 0..(MaxLMembers - 1) : LSeeRip(p, m)
    \/ \E p \in 0..(MaxLMembers - 1) : LNewSuspicion(p)

(* ---------------- one sender's calls of send() ------------------------ *)
MaxNIndex == 3
MaxPayload == 4
header_size == 1
sst_max_msg_size == 2
max_msg_size == 4
NoMsg == [index |-> -1, size |-> 0]

\* the fields get_sendbuffer_ptr reads and writes
SendState ==
    [future |-> n_future_message_indices, free |-> n_free_message_buffers,
     next |-> n_next_sends, sst |-> n_pending_sst_sends, medium |-> n_medium,
     buf |-> FALSE]

\* the SST ring slots not yet delivered
ring_in_use(st) ==
    Cardinality({i \in (n_delivered_num + 1)..(st.future - 1) : ~st.medium[i + 1]})

\* get_sendbuffer_ptr: st.buf tells whether a buffer was returned
get_sendbuffer_ptr(st, payload_size) ==
    LET msg_size == payload_size + header_size IN
    IF msg_size > max_msg_size THEN st
    ELSE IF n_delivered_num < st.future - window_size THEN st
    ELSE IF msg_size > sst_max_msg_size THEN
        IF n_thread_shutdown \/ st.free = 0 \/ st.sst \/ st.next # NoMsg THEN st
        ELSE [st EXCEPT !.next = [index |-> st.future, size |-> msg_size],
                        !.free = @ - 1,
                        !.future = @ + 1,
                        !.medium = Append(@, TRUE),
                        !.buf = TRUE]
    ELSE
        IF st.sst \/ st.next # NoMsg \/ n_thread_shutdown
           \/ ring_in_use(st) >= window_size THEN st
        ELSE [st EXCEPT !.sst = TRUE,
                        !.future = @ + 1,
                        !.medium = Append(@, FALSE),
                        !.buf = TRUE]

\* the end of send() once a buffer was returned
send_finish(st) ==
    /\ n_future_message_indices' = st.future
    /\ n_free_message_buffers' = st.free
    /\ n_medium' = st.medium
    /\ n_next_sends' = NoMsg
    /\ n_pending_sst_sends' = FALSE
    /\ n_pending_sends' = IF st.next # NoMsg THEN Append(n_pending_sends, st.next)
                          ELSE n_pending_sends
    /\ n_pc' = "idle"
    /\ n_payload' = 0
    /\ n_returned' = Append(n_returned, TRUE)

send_untouched ==
    UNCHANGED <<n_future_message_indices, n_free_message_buffers, n_medium,
                n_next_sends, n_pending_sst_sends, n_pending_sends>>

NInit ==
    /\ n_pc = "idle"
    /\ n_payload = 0
    /\ n_future_message_indices = 0
    /\ n_free_message_buffers = window_size
    /\ n_next_sends = NoMsg
    /\ n_pending_sends = <<>>
    /\ n_pending_sst_sends = FALSE
    /\ n_medium = <<>>
    /\ n_delivered_num = -1
    /\ n_thread_shutdown = FALSE
    /\ n_returned = <<>>

\* MulticastGroup::send up to its first test of buf
NSend(payload_size) ==
    /\ n_pc = "idle"
    /\ n_future_message_indices < MaxNIndex
    /\ Len(n_returned) < MaxNIndex
    /\ LET st == get_sendbuffer_ptr(SendState, payload_size) IN
       IF st.buf THEN send_finish(st)
       ELSE /\ n_pc' = "loop"
            /\ n_payload' = payload_size
            /\ send_untouched
            /\ UNCHANGED n_returned
    /\ UNCHANGED <<n_delivered_num, n_thread_shutdown>>
    /\ UNCHANGED NotN

\* one turn of the while(!buf) loop of send()
NSendLoop ==
    /\ n_pc = "loop"
    /\ IF n_thread_shutdown
       THEN /\ n_pc' = "idle"
            /\ n_payload' = 0
            /\ n_returned' = Append(n_returned, FALSE)
            /\ send_untouched
       ELSE LET st == get_sendbuffer_ptr(SendState, n_payload) IN
            IF st.buf THEN send_finish(st)
            ELSE /\ send_untouched
                 /\ UNCHANGED <<n_pc, n_payload, n_returned>>
    /\ UNCHANGED <<n_delivered_num, n_thread_shutdown>>
    /\ UNCHANGED NotN

\* the sender thread takes the head of pending_sends and multicasts it
NSenderThread ==
    /\ n_pending_sends # <<>>
    /\ n_pending_sends' = Tail(n_pending_sends)
    /\ UNCHANGED <<n_pc, n_payload, n_future_message_indices, n_free_message_buffers,
                   n_next_sends, n_pending_sst_sends, n_medium, n_delivered_num,
                   n_thread_shutdown, n_returned>>
    /\ UNCHANGED NotN

\* the next index is delivered everywhere; an RDMC buffer goes back to the free list
NDeliver ==
    /\ n_delivered_num + 1 < n_future_message_indices
    /\ \A k \in 1..Len(n_pending_sends) : n_pending_sends[k].index # n_delivered_num + 1
    /\ n_next_sends.index # n_delivered_num + 1
    /\ ~(n_pending_sst_sends /\ n_delivered_num + 2 = n_future_message_indices)
    /\ n_delivered_num' = n_delivered_num + 1
    /\ n_free_message_buffers' =
          IF n_medium[n_delivered_num + 2] THEN n_free_message_buffers + 1
          ELSE n_free_message_buffers
    /\ UNCHANGED <<n_pc, n_payload, n_future_message_indices, n_next_sends,
                   n_pending_sends, n_pending_sst_sends, n_medium,
                   n_thread_shutdown, n_returned>>
    /\ UNCHANGED NotN

\* wedge(): thread_shutdown is set
NShutdown ==
    /\ ~n_thread_shutdown
    /\ n_thread_shutdown' = TRUE
    /\ UNCHANGED <<n_pc, n_payload, n_future_message_indices, n_free_message_buffers,
                   n_next_sends, n_pending_sends, n_pending_sst_sends, n_medium,
                   n_delivered_num, n_returned>>
    /\ UNCHANGED NotN

SendNext ==
    \/ \E payload_size \in 1..MaxPayload : NSend(payload_size)
    \/ NSendLoop
    \/ NSenderThread
    \/ NDeliver
    \/ NShutdown

(* ---------------- the epoch termination of one member ----------------- *)
MaxKSeq == 1
MaxKVid == 1
KMe == "me"
KPeer == "peer"
KMember == {KMe, KPeer}
KSubgroup == {0, 1}

\* the places where the predicate thread is blocked in the network: the SST
\* barriers of terminate_epoch, and in finish_view_change the TCP writes to
\* the joiners, the handshakes and barrier of the new SST and the transfer
\* of the objects
KBlockingIO == {"te_barrier", "fv_tcp", "fv_barrier", "fv_transfer"}

\* the low half of a version as a signed number: -1 when nothing was persisted
persisted_seq_num(version) ==
    IF version = -1 THEN -1 ELSE unpack_version(version)[2]

\* variant: the install does not wait for persistence
persistence_not_awaited == TRUE

\* persistence_finished_pred
persistence_finished_pred ==
    \A g \in KSubgroup :
        k_mode[g] = "UNORDERED"
        \/ \A m \in KMember :
              ~(m \notin k_failed
                /\ persisted_seq_num(k_persisted_num[m][g]) < k_delivered_num[g])

KInit ==
    /\ k_pc = "running"
    /\ k_write_lock = FALSE
    /\ k_reader = "out"
    /\ k_vid = 0
    /\ k_mode \in [KSubgroup -> {"ORDERED", "UNORDERED"}]
    /\ k_failed = {}
    /\ k_delivered_num = [g \in KSubgroup |-> -1]
    /\ k_persisted_num = [m \in KMember |-> [g \in KSubgroup |-> -1]]

KSame(keep) == UNCHANGED keep /\ UNCHANGED NotK

\* delivery_trigger: the next message of subgroup g is delivered
KDeliver(g) ==
    /\ k_pc = "running"
    /\ k_delivered_num[g] < MaxKSeq
    /\ k_delivered_num' = [k_delivered_num EXCEPT ![g] = @ + 1]
    /\ KSame(<<k_pc, k_write_lock, k_reader, k_vid, k_mode, k_failed, k_persisted_num>>)

\* the persistence thread of member m posts the next version of subgroup g
KPersist(m, g) ==
    /\ k_pc # "installed"
    /\ k_mode[g] = "ORDERED"
    /\ m \notin k_failed
    /\ persisted_seq_num(k_persisted_num[m][g]) <
          (IF m = KMe THEN k_delivered_num[g] ELSE MaxKSeq)
    /\ k_persisted_num' =
          [k_persisted_num EXCEPT ![m][g] =
              combine_int32s(k_vid, persisted_seq_num(@) + 1)]
    /\ KSame(<<k_pc, k_write_lock, k_reader, k_vid, k_mode, k_failed, k_delivered_num>>)

\* new_suspicion: the peer is marked failed and the group wedges
KSuspect ==
    /\ k_pc \in {"running", "wait_global_min", "wait_persistence"}
    /\ KPeer \notin k_failed
    /\ k_failed' = k_failed \cup {KPeer}
    /\ k_pc' = IF k_pc = "running" THEN "wedged" ELSE k_pc
    /\ KSame(<<k_write_lock, k_reader, k_vid, k_mode, k_delivered_num, k_persisted_num>>)

\* start_meta_wedge for a committed join
KMetaWedge ==
    /\ k_pc = "running"
    /\ k_pc' = "wedged"
    /\ KSame(<<k_write_lock, k_reader, k_vid, k_mode, k_failed, k_delivered_num,
               k_persisted_num>>)

\* terminate_epoch up to its first barrier: the write lock is taken first; an
\* inadequate next view registers the retry and returns
KTerminateEpoch(adequate) ==
    /\ k_pc = "wedged"
    /\ k_reader # "holding"
    /\ IF adequate
       THEN k_pc' = "te_barrier" /\ k_write_lock' = TRUE
       ELSE k_pc' = "wait_join" /\ k_write_lock' = FALSE
    /\ KSame(<<k_reader, k_vid, k_mode, k_failed, k_delivered_num, k_persisted_num>>)

\* the leader committed another join: terminate_epoch is called again
KRetryNextView ==
    /\ k_pc = "wait_join"
    /\ k_pc' = "wedged"
    /\ KSame(<<k_write_lock, k_reader, k_vid, k_mode, k_failed, k_delivered_num,
               k_persisted_num>>)

\* the barriers of terminate_epoch complete; the leader's ragged-edge cleanup
\* runs, the wait for global_min_ready is registered, the function returns
KTerminateEpochReturns ==
    /\ k_pc = "te_barrier"
    /\ k_pc' = "wait_global_min"
    /\ k_write_lock' = FALSE
    /\ KSame(<<k_reader, k_vid, k_mode, k_failed, k_delivered_num, k_persisted_num>>)

\* global_min_ready_continuation: the follower's ragged-edge cleanup delivers
\* up to the trim and the wait for persistence is registered
KGlobalMinReady(trim) ==
    /\ k_pc = "wait_global_min"
    /\ \A g \in KSubgroup : trim[g] >= k_delivered_num[g]
    /\ k_delivered_num' = trim
    /\ k_pc' = "wait_persistence"
    /\ KSame(<<k_write_lock, k_reader, k_vid, k_mode, k_failed, k_persisted_num>>)

\* finish_view_change up to the view it sends to the joiners
KFinishViewChange ==
    /\ k_pc = "wait_persistence"
    /\ persistence_finished_pred
    /\ k_reader # "holding"
    /\ k_write_lock' = TRUE
    /\ k_pc' = "fv_tcp"
    /\ KSame(<<k_reader, k_vid, k_mode, k_failed, k_delivered_num, k_persisted_num>>)

\* finish_view_change: the joiners have the view, the new SST is set up
KTransition ==
    /\ k_pc = "fv_tcp"
    /\ k_pc' = "fv_barrier"
    /\ KSame(<<k_write_lock, k_reader, k_vid, k_mode, k_failed, k_delivered_num,
               k_persisted_num>>)

\* finish_view_change: the barrier of the new SST completes and curr_view is
\* replaced; the rows of the new SST start empty
KSwap ==
    /\ k_pc = "fv_barrier"
    /\ k_pc' = "fv_transfer"
    /\ k_vid' = k_vid + 1
    /\ k_failed' = {}
    /\ k_delivered_num' = [g \in KSubgroup |-> -1]
    /\ k_persisted_num' = [m \in KMember |-> [g \in KSubgroup |-> -1]]
    /\ KSame(<<k_write_lock, k_reader, k_mode>>)

\* finish_view_change: the objects are sent to the new members, the
\* predicates start, view_change_cv is notified and the lock is released
KFinishReturns ==
    /\ k_pc = "fv_transfer"
    /\ k_pc' = IF k_vid < MaxKVid THEN "running" ELSE "installed"
    /\ k_write_lock' = FALSE
    /\ KSame(<<k_reader, k_vid, k_mode, k_failed, k_delivered_num, k_persisted_num>>)

\* an application thread takes view_mutex as a reader (get_members, send, ...)
KReaderLock ==
    /\ k_reader \in {"out", "waiting"}
    /\ k_reader' = IF k_write_lock THEN "waiting" ELSE "holding"
    /\ k_reader' # k_reader
    /\ KSame(<<k_pc, k_write_lock, k_vid, k_mode, k_failed, k_delivered_num,
               k_persisted_num>>)

KReaderUnlock ==
    /\ k_reader = "holding"
    /\ k_reader' = "out"
    /\ KSame(<<k_pc, k_write_lock, k_vid, k_mode, k_failed, k_delivered_num,
               k_persisted_num>>)

EpochNext ==
    \/ \E g \in KSubgroup : KDeliver(g)
    \/ \E m \in KMember, g \in KSubgroup : KPersist(m, g)
    \/ KSuspect
    \/ KMetaWedge
    \/ \E adequate \in BOOLEAN : KTerminateEpoch(adequate)
    \/ KRetryNextView
    \/ KTerminateEpochReturns
    \/ \E trim \in [KSubgroup -> -1..MaxKSeq] : KGlobalMinReady(trim)
    \/ KFinishViewChange
    \/ KTransition
    \/ KSwap
    \/ KFinishReturns
    \/ KReaderLock
    \/ KReaderUnlock

(* ---------------- the members of a total restart ----------------------- *)
MaxTSeq == 2
MaxTVid == 1
TShard == {0, 1}
TMember == {0, 1, 2}
\* View::my_subgroups: the shard of a member
my_shard(m) == IF m = 2 THEN 1 ELSE 0
TShardMembers(sh) == {m \in TMember : my_shard(m) = sh}
NoTrim == <<>>

\* variant: every member takes the trim of the first shard
first_shard(m) == 0

\* truncate_persistent_logs: the shard whose trim the member truncates to
find_my_shard(m) == my_shard(m)

\* the first k versions delivered in the view
LogPrefix(vid, k) == {combine_int32s(vid, q) : q \in 0..(k - 1)}

\* RestartState::ragged_trim_to_latest_version: the version of the last
\* message of the cut, computed as deliver_messages_upto computes it
ragged_trim_to_latest_version(view_id, max_received_by_sender) ==
    combine_int32s(view_id, max_seq_num(0, max_received_by_sender))

\* Persistent<T>::truncate: the log keeps the versions up to the given one
truncate(log, version) == {v \in log : v <= version}

\* the member of the shard with the longest log
restart_shard_leader(sh) ==
    CHOOSE m \in TShardMembers(sh) :
        \A o \in TShardMembers(sh) :
            Cardinality(t_log[o]) < Cardinality(t_log[m])
            \/ (Cardinality(t_log[o]) = Cardinality(t_log[m]) /\ m <= o)

TInit ==
    /\ t_vid \in 0..MaxTVid
    /\ t_logged_ragged_trim \in [TShard -> [Senders -> 0..(MaxTSeq \div num_shard_senders)]]
    /\ \E len \in [TMember -> 0..(MaxTSeq + 1)] :
          /\ t_log = [m \in TMember |-> LogPrefix(t_vid, len[m])]
          /\ t_before = [sh \in TShard |->
                LogPrefix(t_vid, Max({len[m] : m \in TShardMembers(sh)}))]
    /\ t_disk_trim = [m \in TMember |-> NoTrim]
    /\ t_pc = [m \in TMember |-> "joined"]

\* send_logs_if_total_restart at the restart leader of a shard, receive_objects
\* at the others: they end with the leader's log
TSendLogs(sh) ==
    /\ \A m \in TShardMembers(sh) : t_pc[m] = "joined"
    /\ t_log' = [m \in TMember |->
                    IF my_shard(m) = sh THEN t_log[restart_shard_leader(sh)]
                    ELSE t_log[m]]
    /\ t_pc' = [m \in TMember |-> IF my_shard(m) = sh THEN "received" ELSE t_pc[m]]
    /\ UNCHANGED <<t_vid, t_logged_ragged_trim, t_before, t_disk_trim>>
    /\ UNCHANGED NotT

\* start(): every received trim goes to its file
TSaveTrims(m) ==
    /\ t_pc[m] = "received"
    /\ t_disk_trim' = [t_disk_trim EXCEPT ![m] = t_logged_ragged_trim]
    /\ t_pc' = [t_pc EXCEPT ![m] = "saved"]
    /\ UNCHANGED <<t_vid, t_logged_ragged_trim, t_before, t_log>>
    /\ UNCHANGED NotT

\* start(): truncate_persistent_logs
TTruncate(m) ==
    /\ t_pc[m] = "saved"
    /\ LET my_shard_ragged_trim == t_logged_ragged_trim[find_my_shard(m)]
           max_delivered_version ==
               ragged_trim_to_latest_version(t_vid, my_shard_ragged_trim)
       IN  t_log' = [t_log EXCEPT ![m] = truncate(@, max_delivered_version)]
    /\ t_pc' = [t_pc EXCEPT ![m] = "truncated"]
    /\ UNCHANGED <<t_vid, t_logged_ragged_trim, t_before, t_disk_trim>>
    /\ UNCHANGED NotT

\* start(): restart_state is dropped and the predicates start
TStartPredicates(m) ==
    /\ t_pc[m] = "truncated"
    /\ t_pc' = [t_pc EXCEPT ![m] = "running"]
    /\ UNCHANGED <<t_vid, t_logged_ragged_trim, t_before, t_log, t_disk_trim>>
    /\ UNCHANGED NotT

RestartNext ==
    \/ \E sh \in TShard : TSendLogs(sh)
    \/ \E m \in TMember : TSaveTrims(m)
    \/ \E m \in TMember : TTruncate(m)
    \/ \E m \in TMember : TStartPredicates(m)

(* ---------------- the receipts from one sender, in any order ---------- *)
MaxVIndex == 6

VInit ==
    /\ v_received_intervals = <<-1, -1>>
    /\ v_received = {}
    /\ v_index = -1
    /\ v_returned = -1

\* a message with an index that did not arrive before is received
VReceive(index) ==
    /\ index \notin v_received
    /\ v_received_intervals' = resolve_list(v_received_intervals, index)
    /\ v_returned' = resolve_num_received(v_received_intervals, index)
    /\ v_received' = v_received \cup {index}
    /\ v_index' = index
    /\ UNCHANGED NotV

ResolveNext == \E index \in 0..MaxVIndex : VReceive(index)

(* ======================================================================== *)
(* make_next_view as a function of the current view and the caller's row   *)
(* ======================================================================== *)

\* most members of the current view
MaxWMembers == 3
\* most committed changes not yet installed
MaxWChanges == 2

\* the ids: one more than the members, so that some id can join
WId == 0..MaxWMembers

\* the sequences over S without a repeated element, of length 1..n
InjSeqs(S, n) ==
    {q \in UNION {[1..k -> S] : k \in 1..n} :
        \A i, j \in 1..Len(q) : i # j => q[i] # q[j]}

\* the view before make_next_view ran
NoWView == [vid |-> -1, members |-> <<>>, member_ips_and_ports |-> <<>>,
            failed |-> <<>>, joined |-> <<>>, departed |-> <<>>,
            my_rank |-> -1, next_unassigned_rank |-> 0]

\* variant: the joiners are placed after all the members of the current view
new_member_rank_after_all(num_members, leave_count, i) == num_members + i

\* the rank make_next_view gives the i-th joiner: the members list shrinks
\* by the leavers, the joiners follow the members that stay
new_member_rank(num_members, leave_count, i) == num_members - leave_count + i

\* make_next_view: the first num_committed_changes entries (committed_count
\* in the code) of changes in the caller's row are
\* filtered into the ranks that leave (a std::set) and the indexes that
\* join; the joiners are written at the end of the zero-initialised arrays,
\* the members that stay are copied to the front in rank order; the caller
\* looks for its own id and throws when it is not there
make_next_view_from(cv, changes, joiner_ips, num_committed_changes) ==
    LET num_members == Len(cv.members)
        idx == 0..(num_committed_changes - 1)
        change_rank(i) == rank_of(cv, changes[i + 1])
        leave_ranks == {change_rank(i) : i \in {j \in idx : change_rank(j) # -1}}
        join_indexes == SortedSeq({j \in idx : change_rank(j) = -1})
        leave_count == Cardinality(leave_ranks)
        next_num_members == num_members - leave_count + Len(join_indexes)
        stay_ranks == SortedSeq((0..(num_members - 1)) \ leave_ranks)
        JoinerAt(r) == {i \in 0..(Len(join_indexes) - 1) :
                            new_member_rank(num_members, leave_count, i) = r}
        join_index(r) == join_indexes[Max(JoinerAt(r)) + 1]
        members == [r \in 0..(next_num_members - 1) |->
                        IF r < Len(stay_ranks) THEN cv.members[stay_ranks[r + 1] + 1]
                        ELSE IF JoinerAt(r) # {} THEN changes[join_index(r) + 1]
                        ELSE 0]
        member_ips_and_ports ==
            [r \in 0..(next_num_members - 1) |->
                IF r < Len(stay_ranks)
                THEN cv.member_ips_and_ports[stay_ranks[r + 1] + 1]
                ELSE IF JoinerAt(r) # {} THEN joiner_ips[join_index(r) + 1]
                ELSE 0]
        failed_flags == [r \in 0..(next_num_members - 1) |->
                        IF r < Len(stay_ranks) THEN cv.failed[stay_ranks[r + 1] + 1]
                        ELSE FALSE]
        leave_seq == SortedSeq(leave_ranks)
        myID == cv.members[cv.my_rank + 1]
        found == {i \in 0..(next_num_members - 1) : members[i] = myID}
        my_new_rank == IF found = {} THEN -1 ELSE Min(found)
    IN  [vid |-> next_vid(cv),
         members |-> [k \in 1..next_num_members |-> members[k - 1]],
         member_ips_and_ports |->
             [k \in 1..next_num_members |-> member_ips_and_ports[k - 1]],
         failed |-> [k \in 1..next_num_members |-> failed_flags[k - 1]],
         joined |-> [k \in 1..Len(join_indexes) |-> changes[join_indexes[k] + 1]],
         departed |-> [k \in 1..leave_count |-> cv.members[leave_seq[k] + 1]],
         my_rank |-> my_new_rank,
         next_unassigned_rank |->
             cv.next_unassigned_rank
                 - Cardinality({r \in leave_ranks : r <= cv.next_unassigned_rank})]

\* the views make_next_view may be called on: the members are distinct, at
\* most one of them is marked failed, the caller is one of them, and the
\* endpoint of a member is told apart from the endpoint of any other
WInit ==
    /\ w_pc = "call"
    /\ \E members \in InjSeqs(WId, MaxWMembers) :
       \E failed_rank \in 0..Len(members), my_rank \in 0..(Len(members) - 1),
          vid \in {0, 1} :
            w_curr_view =
                [vid |-> vid, members |-> members,
                 member_ips_and_ports |-> [k \in 1..Len(members) |-> 10 + k],
                 failed |-> [k \in 1..Len(members) |-> k = failed_rank],
                 joined |-> <<>>, departed |-> <<>>,
                 my_rank |-> my_rank, next_unassigned_rank |-> Len(members)]
    /\ w_changes \in [1..MaxWChanges -> WId]
    /\ w_joiner_ips = [k \in 1..MaxWChanges |-> 20 + k]
    /\ w_committed_count \in 0..MaxWChanges
    /\ w_next_view = NoWView

\* the call: terminate_epoch keeps the view, or the exception ends the caller
WMakeNextView ==
    /\ w_pc = "call"
    /\ LET nv == make_next_view_from(w_curr_view, w_changes, w_joiner_ips,
                                     w_committed_count)
       IN  /\ w_next_view' = nv
           /\ w_pc' = IF nv.my_rank = -1 THEN "thrown" ELSE "returned"
    /\ UNCHANGED <<w_curr_view, w_changes, w_joiner_ips, w_committed_count>>
    /\ UNCHANGED NotW

NextViewNext == WMakeNextView

(* ======================================================================== *)
(* ragged-edge cleanup of one shard: the order of the puts                  *)
(* ======================================================================== *)

\* highest index a member received from a sender before the view wedged
MaxQReceived == 0
\* members that may stop during the cleanup
MaxQCrash == 1

\* the shard: three members of one subgroup (shard rank = row), one sender
QMember == {0, 1, 2}
QSender == {0}
NoTrimYet == <<>>

\* the cells of a row the cleanup reads and writes
QBlank == [num_received |-> [s \in QSender |-> -1],
           global_min |-> [s \in QSender |-> 0],
           global_min_ready |-> FALSE]

\* variant: the flag is put before the cells
puts_flag_first == <<"global_min_ready", "global_min">>

\* the two puts of leader_ragged_edge_cleanup and follower_ragged_edge_cleanup,
\* in program order: the global_min cells, then global_min_ready
cleanup_puts == <<"global_min", "global_min_ready">>

\* subview_rank_of_shard_leader at member n: the lowest-ranked shard member
\* whose failed flag is not set at n
q_shard_leader(n) == Min(QMember \ q_failed[n])

\* what member n reads in row m
QRow(n, m) == IF m = n THEN q_row[n] ELSE q_table[n][m]

\* leader_ragged_edge_cleanup: the first shard member whose global_min_ready
\* is set gives its global_min; when there is none, the minimum of
\* num_received over the members not marked failed, starting from n's own
q_leader_global_min(n) ==
    LET ready == {m \in QMember : QRow(n, m).global_min_ready}
    IN  IF ready # {}
        THEN QRow(n, Min(ready)).global_min
        ELSE [s \in QSender |->
                Min({QRow(n, m).num_received[s] : m \in (QMember \ q_failed[n]) \cup {n}})]

\* after the barrier of terminate_epoch: every member has the final
\* num_received of every member, nothing of the trim is written yet
QInit ==
    /\ q_pc = [n \in QMember |-> "start"]
    /\ q_row \in [QMember -> {[QBlank EXCEPT !.num_received = nr] :
                                nr \in [QSender -> -1..MaxQReceived]}]
    /\ q_table = [n \in QMember |-> [m \in QMember |-> q_row[m]]]
    /\ q_wire = [m \in QMember |-> [n \in QMember |-> <<>>]]
    /\ q_failed = [n \in QMember |-> {}]
    /\ q_puts = [n \in QMember |-> 0]
    /\ q_leader = [n \in QMember |-> NoId]
    /\ q_trim = [n \in QMember |-> NoTrimYet]

\* terminate_epoch past sync_with_members at member n: the shard leader sets
\* its global_min cells and then global_min_ready in its own row; any other
\* member notes the shard and registers leader_global_mins_are_ready
QTerminateEpoch(n) ==
    /\ q_pc[n] = "start"
    /\ IF q_shard_leader(n) = n
       THEN /\ q_row' = [q_row EXCEPT ![n].global_min = q_leader_global_min(n),
                                      ![n].global_min_ready = TRUE]
            /\ q_leader' = [q_leader EXCEPT ![n] = n]
            /\ q_pc' = [q_pc EXCEPT ![n] = "puts"]
       ELSE /\ q_pc' = [q_pc EXCEPT ![n] = "follower"]
            /\ UNCHANGED <<q_row, q_leader>>
    /\ UNCHANGED <<q_table, q_wire, q_failed, q_puts, q_trim>>
    /\ UNCHANGED NotQ

\* leader_global_mins_are_ready and global_min_ready_continuation at a
\* follower: once global_min_ready of the member it takes for the shard
\* leader is set in its table, follower_ragged_edge_cleanup copies that
\* member's global_min cells into its own row and sets global_min_ready
QFollowerCleanup(n) ==
    /\ q_pc[n] = "follower"
    /\ LET shard_leader_rank == q_shard_leader(n)
       IN  /\ QRow(n, shard_leader_rank).global_min_ready
           /\ q_row' = [q_row EXCEPT
                            ![n].global_min = QRow(n, shard_leader_rank).global_min,
                            ![n].global_min_ready = TRUE]
           /\ q_leader' = [q_leader EXCEPT ![n] = shard_leader_rank]
    /\ q_pc' = [q_pc EXCEPT ![n] = "puts"]
    /\ UNCHANGED <<q_table, q_wire, q_failed, q_puts, q_trim>>
    /\ UNCHANGED NotQ

\* the next put of the cleanup: one RDMA write of the named cells of the
\* member's row is posted to every other member of the shard
QPut(n) ==
    /\ q_pc[n] = "puts"
    /\ q_puts[n] < Len(cleanup_puts)
    /\ LET cells == cleanup_puts[q_puts[n] + 1]
           write == [cells |-> cells,
                     value |-> IF cells = "global_min" THEN q_row[n].global_min
                               ELSE q_row[n].global_min_ready]
       IN  q_wire' = [q_wire EXCEPT ![n] =
                        [m \in QMember |-> IF m = n THEN @[m] ELSE Append(@[m], write)]]
    /\ q_puts' = [q_puts EXCEPT ![n] = @ + 1]
    /\ UNCHANGED <<q_pc, q_row, q_table, q_failed, q_leader, q_trim>>
    /\ UNCHANGED NotQ

\* deliver_in_order(shard_leader_rank, ...): the member delivers up to the
\* global_min cells of the shard leader's row as it reads them now
QDeliverInOrder(n) ==
    /\ q_pc[n] = "puts"
    /\ q_puts[n] = Len(cleanup_puts)
    /\ q_trim' = [q_trim EXCEPT ![n] = QRow(n, q_leader[n]).global_min]
    /\ q_pc' = [q_pc EXCEPT ![n] = "cleaned"]
    /\ UNCHANGED <<q_row, q_table, q_wire, q_failed, q_puts, q_leader>>
    /\ UNCHANGED NotQ

\* the oldest write member m posted to member n is placed in n's table,
\* unless n froze the row of m
QPlace(m, n) ==
    /\ q_wire[m][n] # <<>>
    /\ q_pc[n] # "stopped"
    /\ m \notin q_failed[n]
    /\ LET write == Head(q_wire[m][n])
       IN  q_table' = [q_table EXCEPT ![n][m] =
                        IF write.cells = "global_min"
                        THEN [@ EXCEPT !.global_min = write.value]
                        ELSE [@ EXCEPT !.global_min_ready = write.value]]
    /\ q_wire' = [q_wire EXCEPT ![m][n] = Tail(@)]
    /\ UNCHANGED <<q_pc, q_row, q_failed, q_puts, q_leader, q_trim>>
    /\ UNCHANGED NotQ

\* member n stops (crash-stop) anywhere in its cleanup
QStop(n) ==
    /\ q_pc[n] # "stopped"
    /\ Cardinality({m \in QMember : q_pc[m] = "stopped"}) < MaxQCrash
    /\ q_pc' = [q_pc EXCEPT ![n] = "stopped"]
    /\ UNCHANGED <<q_row, q_table, q_wire, q_failed, q_puts, q_leader, q_trim>>
    /\ UNCHANGED NotQ

\* the writes a stopped member had posted to member n and that were not
\* placed yet never arrive
QLose(m, n) ==
    /\ q_pc[m] = "stopped"
    /\ q_wire[m][n] # <<>>
    /\ q_wire' = [q_wire EXCEPT ![m][n] = <<>>]
    /\ UNCHANGED <<q_pc, q_row, q_table, q_failed, q_puts, q_leader, q_trim>>
    /\ UNCHANGED NotQ

\* member n marks the stopped member m failed and freezes its row
\* (new_suspicion), between two triggers of its predicate thread
QSuspect(n, m) ==
    /\ q_pc[n] # "stopped"
    /\ q_pc[m] = "stopped"
    /\ m \notin q_failed[n]
    /\ q_failed' = [q_failed EXCEPT ![n] = @ \cup {m}]
    /\ UNCHANGED <<q_pc, q_row, q_table, q_wire, q_puts, q_leader, q_trim>>
    /\ UNCHANGED NotQ

TrimNext ==
    \/ \E n \in QMember : QTerminateEpoch(n)
    \/ \E n \in QMember : QFollowerCleanup(n)
    \/ \E n \in QMember : QPut(n)
    \/ \E n \in QMember : QDeliverInOrder(n)
    \/ \E m, n \in QMember : QPlace(m, n)
    \/ \E n \in QMember : QStop(n)
    \/ \E m, n \in QMember : QLose(m, n)
    \/ \E n, m \in QMember : QSuspect(n, m)

(* ======================================================================== *)
(* the SST as a table of rows: which rows the local code stores into        *)
(* ======================================================================== *)

\* highest num_received a member reaches
MaxEReceived == 1
\* most changes the leader proposes
MaxEChanges == 1

\* two members; member 0 leads the group and the shard
EMember == {0, 1}

\* a row as the SST constructor leaves it: the cells of the multicast
\* engine hold whatever the fresh memory holds
ERowOf(fresh) == [num_received |-> fresh, seq_num |-> fresh, delivered_num |-> fresh,
                  num_changes |-> 0, num_acked |-> 0,
                  global_min |-> 0, global_min_ready |-> FALSE]

\* what member n reads in row m
ERead(n, m) == IF m = n THEN e_row[n] ELSE e_table[n][m]

\* SST::put of the whole row: one write to every other member
EPutRow(n, row) ==
    [e_wire EXCEPT ![n] = [m \in EMember |-> IF m = n THEN @[m] ELSE Append(@[m], row)]]

EInit ==
    /\ e_pc = [n \in EMember |-> "new"]
    /\ \E fresh \in {-1, 0} :
        /\ e_row = [n \in EMember |-> ERowOf(fresh)]
        /\ e_table = [n \in EMember |-> [m \in EMember |-> ERowOf(fresh)]]
    /\ e_wire = [m \in EMember |-> [n \in EMember |-> <<>>]]

\* initialize_sst_row: the loop over i < num_members stores -1 into
\* num_received, seq_num and delivered_num of row i of the local table
initialize_sst_row(n, i, row) ==
    [row EXCEPT !.num_received = -1, !.seq_num = -1, !.delivered_num = -1]

\* the constructor of MulticastGroup at member n: initialize_sst_row, then
\* put of the row, then sync_with_members
EConstruct(n) ==
    /\ e_pc[n] = "new"
    /\ e_row' = [e_row EXCEPT ![n] = initialize_sst_row(n, n, @)]
    /\ e_table' = [e_table EXCEPT ![n] =
                    [i \in EMember |-> IF i = n THEN @[i]
                                       ELSE initialize_sst_row(n, i, @[i])]]
    /\ e_wire' = EPutRow(n, e_row'[n])
    /\ e_pc' = [e_pc EXCEPT ![n] = "sync"]
    /\ UNCHANGED NotE

\* sync_with_members returns once every member reached the barrier
ESync(n) ==
    /\ e_pc[n] = "sync"
    /\ \A m \in EMember : e_pc[m] # "new"
    /\ e_pc' = [e_pc EXCEPT ![n] = "run"]
    /\ UNCHANGED <<e_row, e_table, e_wire>>
    /\ UNCHANGED NotE

\* a receive handler of the multicast engine: num_received and seq_num of
\* the member's own row move on and the row is put
EReceive(n) ==
    /\ e_pc[n] = "run"
    /\ e_row[n].num_received < MaxEReceived
    /\ e_row' = [e_row EXCEPT ![n].num_received = @ + 1, ![n].seq_num = @ + 1]
    /\ e_wire' = EPutRow(n, e_row'[n])
    /\ UNCHANGED <<e_pc, e_table>>
    /\ UNCHANGED NotE

\* the leader proposes a change: num_changes of its own row grows
EPropose(n) ==
    /\ e_pc[n] = "run"
    /\ n = 0
    /\ e_row[n].num_changes < MaxEChanges
    /\ e_row' = [e_row EXCEPT ![n].num_changes = @ + 1, ![n].num_acked = @ + 1]
    /\ e_wire' = EPutRow(n, e_row'[n])
    /\ UNCHANGED <<e_pc, e_table>>
    /\ UNCHANGED NotE

\* acknowledge_proposed_change at a member that is not the leader: it copies
\* num_changes of the leader's row into its own row and acknowledges
EAcknowledge(n) ==
    /\ e_pc[n] = "run"
    /\ n # 0
    /\ ERead(n, 0).num_changes > e_row[n].num_acked
    /\ e_row' = [e_row EXCEPT ![n].num_changes = ERead(n, 0).num_changes,
                              ![n].num_acked = ERead(n, 0).num_changes]
    /\ e_wire' = EPutRow(n, e_row'[n])
    /\ UNCHANGED <<e_pc, e_table>>
    /\ UNCHANGED NotE

\* leader_ragged_edge_cleanup: the minimum of num_received over the rows
\* goes into global_min of the leader's own row, then global_min_ready
ELeaderCleanup(n) ==
    /\ e_pc[n] = "run"
    /\ n = 0
    /\ ~e_row[n].global_min_ready
    /\ e_row' = [e_row EXCEPT
                    ![n].global_min = Min({ERead(n, m).num_received : m \in EMember}),
                    ![n].global_min_ready = TRUE]
    /\ e_wire' = EPutRow(n, e_row'[n])
    /\ UNCHANGED <<e_pc, e_table>>
    /\ UNCHANGED NotE

\* the oldest row member m put is placed in the table of member n
EPlace(m, n) ==
    /\ e_wire[m][n] # <<>>
    /\ e_table' = [e_table EXCEPT ![n][m] = Head(e_wire[m][n])]
    /\ e_wire' = [e_wire EXCEPT ![m][n] = Tail(@)]
    /\ UNCHANGED <<e_pc, e_row>>
    /\ UNCHANGED NotE

RowsNext ==
    \/ \E n \in EMember : EConstruct(n)
    \/ \E n \in EMember : ESync(n)
    \/ \E n \in EMember : EReceive(n)
    \/ \E n \in EMember : EPropose(n)
    \/ \E n \in EMember : EAcknowledge(n)
    \/ \E n \in EMember : ELeaderCleanup(n)
    \/ \E m, n \in EMember : EPlace(m, n)

(* ======================================================================== *)
(* ViewManager::send: the wait on view_change_cv                            *)
(* ======================================================================== *)

\* calls of send per application thread
MaxHSends == 2

\* two application threads
HThread == {"a", "b"}

\* variant: the install announces nothing
notify_none(pcs) == pcs

\* view_change_cv.notify_all(): every thread waiting on the condition
\* variable is woken
notify_all(pcs) == [t \in HThread |-> IF pcs[t] = "waiting" THEN "notified" ELSE pcs[t]]

\* MulticastGroup::send on an engine whose window is open: false once
\* thread_shutdown is set (get_sendbuffer_ptr returns nullptr and the loop
\* of send leaves), true after the message was handed over
multicast_group_send(wedged) == ~wedged

HInit ==
    /\ h_pc = [t \in HThread |-> "idle"]
    /\ h_wedged \in BOOLEAN
    /\ h_writer = FALSE
    /\ h_queue = {}
    /\ h_done = [t \in HThread |-> 0]
    /\ h_blocked = [t \in HThread |-> FALSE]

\* ViewManager::send: shared_lock_t lock(view_mutex)
HCall(t) ==
    /\ h_pc[t] = "idle"
    /\ h_done[t] < MaxHSends
    /\ ~h_writer
    /\ h_pc' = [h_pc EXCEPT ![t] = "locked"]
    /\ h_blocked' = [h_blocked EXCEPT ![t] = FALSE]
    /\ UNCHANGED <<h_wedged, h_writer, h_queue, h_done>>
    /\ UNCHANGED NotH

\* the predicate of view_change_cv.wait under the shared lock:
\* curr_view->multicast_group->send(...); true ends the call, false makes
\* the thread release the lock and wait
HTry(t) ==
    /\ h_pc[t] = "locked"
    /\ IF multicast_group_send(h_wedged)
       THEN /\ h_queue' = h_queue \cup {<<t, h_done[t]>>}
            /\ h_done' = [h_done EXCEPT ![t] = @ + 1]
            /\ h_pc' = [h_pc EXCEPT ![t] = "idle"]
            /\ UNCHANGED h_blocked
       ELSE /\ h_pc' = [h_pc EXCEPT ![t] = "waiting"]
            /\ h_blocked' = [h_blocked EXCEPT ![t] = TRUE]
            /\ UNCHANGED <<h_queue, h_done>>
    /\ UNCHANGED <<h_wedged, h_writer>>
    /\ UNCHANGED NotH

\* a woken thread takes the shared lock again and evaluates the predicate
HRetry(t) ==
    /\ h_pc[t] = "notified"
    /\ ~h_writer
    /\ h_pc' = [h_pc EXCEPT ![t] = "locked"]
    /\ UNCHANGED <<h_wedged, h_writer, h_queue, h_done, h_blocked>>
    /\ UNCHANGED NotH

\* MulticastGroup::wedge of the current view (a failure or a join is handled)
HWedge ==
    /\ ~h_wedged
    /\ ~h_writer
    /\ h_wedged' = TRUE
    /\ UNCHANGED <<h_pc, h_writer, h_queue, h_done, h_blocked>>
    /\ UNCHANGED NotH

\* finish_view_change: the write lock on view_mutex, once no thread holds
\* the shared lock
HFinishBegin ==
    /\ h_wedged
    /\ ~h_writer
    /\ \A t \in HThread : h_pc[t] # "locked"
    /\ h_writer' = TRUE
    /\ UNCHANGED <<h_pc, h_wedged, h_queue, h_done, h_blocked>>
    /\ UNCHANGED NotH

\* finish_view_change to its end: curr_view = std::move(next_view) with its
\* new engine, view_change_cv.notify_all(), the write lock is released
HFinishEnd ==
    /\ h_writer
    /\ h_wedged' = FALSE
    /\ h_queue' = {}
    /\ h_pc' = notify_all(h_pc)
    /\ h_writer' = FALSE
    /\ UNCHANGED <<h_done, h_blocked>>
    /\ UNCHANGED NotH

VSendNext ==
    \/ \E t \in HThread : HCall(t)
    \/ \E t \in HThread : HTry(t)
    \/ \E t \in HThread : HRetry(t)
    \/ HWedge
    \/ HFinishBegin
    \/ HFinishEnd

(* ------------- the leader's changes list across a held view ------------- *)
\* clients that may ask to join
MaxOJoins == 3
\* highest vid the leader may install
MaxOVid == 1

\* changes[] of a row as make_next_view reads it
OChanges(row) == [k \in 1..ChangesSize |-> row.changes[k - 1]]

\* a view of three members led by rank 0, no change pending
OInit ==
    /\ o_pc = "steady"
    /\ o_view = [vid |-> 0, members |-> <<0, 1, 2>>,
                 member_ips_and_ports |-> <<10, 11, 12>>,
                 failed |-> <<FALSE, FALSE, FALSE>>,
                 joined |-> <<>>, departed |-> <<>>,
                 my_rank |-> 0, next_unassigned_rank |-> 3]
    /\ o_row = BlankRow
    /\ o_acked = 0
    /\ o_min \in {2, 3}
    /\ o_base = 0
    /\ o_joins = 0

\* start_join runs while it is registered: until start_meta_wedge removes
\* it, and again after terminate_epoch found the next view inadequate
OJoinsOpen ==
    \/ o_pc = "waiting"
    \/ o_pc = "steady" /\ o_row.num_committed = o_row.num_installed

\* new_suspicion at the leader for the member of rank q: the failure is
\* proposed unless the index equals the size of changes[]
OSuspect(q) ==
    /\ o_pc \in {"steady", "waiting"}
    /\ q \in 1..(Len(o_view.members) - 1)
    /\ \A k \in 1..Len(o_view.failed) : ~o_view.failed[k]
    /\ LET id == o_view.members[q + 1]
           next_change_index == o_row.num_changes - o_row.num_installed
       IN  IF changes_contains(o_row, id)
           THEN /\ o_row' = [o_row EXCEPT !.wedged = TRUE]
                /\ o_view' = [o_view EXCEPT !.failed[q + 1] = TRUE]
                /\ UNCHANGED o_pc
           ELSE IF next_change_index = ChangesSize
           THEN /\ o_pc' = "thrown"
                /\ o_view' = [o_view EXCEPT !.failed[q + 1] = TRUE]
                /\ o_row' = [o_row EXCEPT !.wedged = TRUE]
           ELSE /\ o_row' = [o_row EXCEPT !.changes[next_change_index] = id,
                                          !.num_changes = @ + 1,
                                          !.wedged = TRUE]
                /\ o_view' = [o_view EXCEPT !.failed[q + 1] = TRUE]
                /\ UNCHANGED o_pc
    /\ UNCHANGED <<o_acked, o_min, o_base, o_joins>>
    /\ UNCHANGED NotO

\* leader_start_join with receive_join for a client with a fresh id
OStartJoin ==
    /\ OJoinsOpen
    /\ o_joins < MaxOJoins
    /\ LET r == receive_join(o_row, o_view, Joiner + o_joins)
       IN  /\ o_row' = r.row
           /\ o_pc' = IF r.outcome = "exception" THEN "thrown"
                      ELSE IF r.outcome = "past_the_end" THEN "past_the_end"
                      ELSE o_pc
    /\ o_joins' = o_joins + 1
    /\ UNCHANGED <<o_view, o_acked, o_min, o_base>>
    /\ UNCHANGED NotO

\* acknowledge_proposed_change at the members that still answer
OAcknowledge ==
    /\ o_pc \in {"steady", "waiting"}
    /\ o_acked < o_row.num_changes
    /\ o_acked' = o_row.num_changes
    /\ UNCHANGED <<o_pc, o_view, o_row, o_min, o_base, o_joins>>
    /\ UNCHANGED NotO

\* change_commit_ready and leader_commit_change
OCommit ==
    /\ OJoinsOpen
    /\ o_acked > o_row.num_committed
    /\ o_row' = [o_row EXCEPT !.num_committed = o_acked]
    /\ UNCHANGED <<o_pc, o_view, o_acked, o_min, o_base, o_joins>>
    /\ UNCHANGED NotO

\* start_meta_wedge and terminate_epoch, or retry_next_view: an inadequate
\* next view leaves the committed changes uninstalled, registers the
\* predicates again and waits for a further commit; an adequate one is
\* installed
OTerminateEpoch ==
    /\ \/ o_pc = "steady" /\ o_row.num_committed > o_row.num_installed
       \/ o_pc = "waiting" /\ o_row.num_committed > o_base
    /\ o_view.vid < MaxOVid
    /\ LET k == o_row.num_committed - o_row.num_installed
           nv == make_next_view_from(o_view, OChanges(o_row),
                                     [i \in 1..ChangesSize |-> 20 + i], k)
       IN  IF Len(nv.members) >= o_min
           THEN /\ o_view' = nv
                /\ o_row' = init_local_row_from_previous(o_row, k)
                /\ o_pc' = "steady"
                /\ o_base' = 0
           ELSE /\ o_pc' = "waiting"
                /\ o_base' = o_row.num_committed
                /\ UNCHANGED <<o_view, o_row>>
    /\ UNCHANGED <<o_acked, o_min, o_joins>>
    /\ UNCHANGED NotO

ChangesNext ==
    \/ \E q \in 1..2 : OSuspect(q)
    \/ OStartJoin
    \/ OAcknowledge
    \/ OCommit
    \/ OTerminateEpoch

(* --------------- state transfer after a view was installed -------------- *)
\* the members of the installed view and the subgroups, one shard each
FNode == {0, 1, 2}
FSubgroup == {0, 1}

\* send_objects_to_new_members at node n: the calls of send_subgroup_object
\* in the order of the loops, as pairs of subgroup and receiving node
RECURSIVE sends_from(_, _)
sends_from(n, gs) ==
    IF gs = <<>> THEN <<>>
    ELSE LET g == Head(gs)
             to == IF f_old_shard_leaders[g] = n
                   THEN SortedSeq(f_joined[g] \ {n}) ELSE <<>>
         IN  [k \in 1..Len(to) |-> <<g, to[k]>>] \o sends_from(n, Tail(gs))

send_objects_to_new_members(n) == sends_from(n, SortedSeq(FSubgroup))

\* the calls of node n that have not returned
FPendingSends(n) ==
    SelectSeq(send_objects_to_new_members(n),
              LAMBDA c : <<c[1], n, c[2]>> \notin f_sent)

\* construct_objects: the subgroups node n just became a member of and that
\* have a previous leader other than n
subgroups_to_receive(n) ==
    {g \in FSubgroup : /\ n \in f_joined[g]
                       /\ f_old_shard_leaders[g] > -1
                       /\ f_old_shard_leaders[g] # n}

FPendingReceives(n) == SortedSeq(subgroups_to_receive(n) \ f_got[n])

\* every node has installed the view and is about to run the view upcalls
FInit ==
    /\ f_old_shard_leaders \in [FSubgroup -> FNode \cup {NoId}]
    /\ f_joined \in [FSubgroup -> SUBSET FNode]
    /\ f_persistent \in [FSubgroup -> BOOLEAN]
    /\ f_pc = [n \in FNode |-> "upcalls"]
    /\ f_sent = {}
    /\ f_wire = [a \in FNode |-> [b \in FNode |-> <<>>]]
    /\ f_wrote = [n \in FNode |-> FALSE]
    /\ f_got = [n \in FNode |-> {}]

\* finish_view_change: the view upcalls set up the connections to the new
\* members and send_objects_to_new_members is called
FViewUpcalls(n) ==
    /\ f_pc[n] = "upcalls"
    /\ f_pc' = [f_pc EXCEPT ![n] = "send"]
    /\ UNCHANGED <<f_old_shard_leaders, f_joined, f_persistent, f_sent, f_wire,
                   f_wrote, f_got>>
    /\ UNCHANGED NotF

\* send_subgroup_object: for a persistent object the log tail length is
\* read from the socket of the new node first, then the object is written
FSendSubgroupObject(n) ==
    /\ f_pc[n] = "send"
    /\ FPendingSends(n) # <<>>
    /\ LET subgroup_id == Head(FPendingSends(n))[1]
           new_node_id == Head(FPendingSends(n))[2]
           read_wire == IF f_persistent[subgroup_id]
                        THEN [f_wire EXCEPT ![new_node_id][n] = Tail(@)]
                        ELSE f_wire
       IN  /\ f_persistent[subgroup_id] => f_wire[new_node_id][n] # <<>>
           /\ f_wire' = [read_wire EXCEPT ![n][new_node_id] =
                            Append(@, <<"object", subgroup_id>>)]
           /\ f_sent' = f_sent \cup {<<subgroup_id, n, new_node_id>>}
    /\ UNCHANGED <<f_old_shard_leaders, f_joined, f_persistent, f_pc, f_wrote, f_got>>
    /\ UNCHANGED NotF

\* send_objects_to_new_members returns and initialize_subgroup_objects starts
FInitializeSubgroupObjects(n) ==
    /\ f_pc[n] = "send"
    /\ FPendingSends(n) = <<>>
    /\ f_pc' = [f_pc EXCEPT ![n] = "receive"]
    /\ UNCHANGED <<f_old_shard_leaders, f_joined, f_persistent, f_sent, f_wire,
                   f_wrote, f_got>>
    /\ UNCHANGED NotF

\* receive_objects: the log tail length of a persistent object is written
\* to the socket of the old shard leader
FWriteLogTail(n) ==
    /\ f_pc[n] = "receive"
    /\ FPendingReceives(n) # <<>>
    /\ LET g == Head(FPendingReceives(n))
           leader == f_old_shard_leaders[g]
       IN  /\ f_persistent[g]
           /\ ~f_wrote[n]
           /\ f_wire' = [f_wire EXCEPT ![n][leader] = Append(@, <<"tail", g>>)]
    /\ f_wrote' = [f_wrote EXCEPT ![n] = TRUE]
    /\ UNCHANGED <<f_old_shard_leaders, f_joined, f_persistent, f_pc, f_sent, f_got>>
    /\ UNCHANGED NotF

\* receive_objects: the object is read from the socket of the old leader
FReceiveObject(n) ==
    /\ f_pc[n] = "receive"
    /\ FPendingReceives(n) # <<>>
    /\ LET g == Head(FPendingReceives(n))
           leader == f_old_shard_leaders[g]
       IN  /\ f_persistent[g] => f_wrote[n]
           /\ f_wire[leader][n] # <<>>
           /\ f_wire' = [f_wire EXCEPT ![leader][n] = Tail(@)]
           /\ f_got' = [f_got EXCEPT ![n] = @ \cup {g}]
    /\ f_wrote' = [f_wrote EXCEPT ![n] = FALSE]
    /\ UNCHANGED <<f_old_shard_leaders, f_joined, f_persistent, f_pc, f_sent>>
    /\ UNCHANGED NotF

\* receive_objects returns: the predicates are started again
FStartPredicates(n) ==
    /\ f_pc[n] = "receive"
    /\ FPendingReceives(n) = <<>>
    /\ f_pc' = [f_pc EXCEPT ![n] = "done"]
    /\ UNCHANGED <<f_old_shard_leaders, f_joined, f_persistent, f_sent, f_wire,
                   f_wrote, f_got>>
    /\ UNCHANGED NotF

TransferNext ==
    \/ \E n \in FNode : FViewUpcalls(n)
    \/ \E n \in FNode : FSendSubgroupObject(n)
    \/ \E n \in FNode : FInitializeSubgroupObjects(n)
    \/ \E n \in FNode : FWriteLogTail(n)
    \/ \E n \in FNode : FReceiveObject(n)
    \/ \E n \in FNode : FStartPredicates(n)

(* --------------------------- specifications --------------------------- *)
\* the variables of a part of the model that is not running
McIdle == McInit
GIdle == GInit /\ min_members = 2
PIdle ==
    /\ p_num_members = Cardinality(Node)
    /\ p_num_left = 0
    /\ p_rip = FALSE
    /\ p_num_failed = 0
    /\ p_thrown = FALSE

UIdle == UInit /\ mode = "ORDERED"
RIdle == new_pending_sends = [n \in Node |-> <<>>]
DIdle == DInit /\ d_vid = 0 /\ d_stability
SIdle == SInit /\ s_min = 2
JIdle == JInit
LIdle == LInit /\ l_num_members = 2
NIdle == NInit
KIdle == KInit /\ k_mode = [g \in KSubgroup |-> "ORDERED"]
TIdle == TInit /\ t_vid = 0 /\ t_logged_ragged_trim = [sh \in TShard |-> [s \in Senders |-> 0]] /\ t_log = [m \in TMember |-> {}]
VIdle == VInit
WIdle == w_pc = "idle" /\ w_curr_view = NoWView /\ w_changes = <<>> /\ w_joiner_ips = <<>> /\ w_committed_count = 0 /\ w_next_view = NoWView
QIdle == q_pc = [n \in QMember |-> "idle"] /\ q_row = [n \in QMember |-> QBlank] /\ q_table = [n \in QMember |-> [m \in QMember |-> QBlank]] /\ q_wire = [m \in QMember |-> [n \in QMember |-> <<>>]] /\ q_failed = [n \in QMember |-> {}] /\ q_puts = [n \in QMember |-> 0] /\ q_leader = [n \in QMember |-> NoId] /\ q_trim = [n \in QMember |-> NoTrimYet]
EIdle == e_pc = [n \in EMember |-> "idle"] /\ e_row = [n \in EMember |-> ERowOf(0)] /\ e_table = [n \in EMember |-> [m \in EMember |-> ERowOf(0)]] /\ e_wire = [m \in EMember |-> [n \in EMember |-> <<>>]]
HIdle == h_pc = [t \in HThread |-> "idle"] /\ h_wedged = FALSE /\ h_writer = FALSE /\ h_queue = {} /\ h_done = [t \in HThread |-> MaxHSends] /\ h_blocked = [t \in HThread |-> FALSE]
OIdle == o_pc = "thrown" /\ o_view = NoWView /\ o_row = BlankRow /\ o_acked = 0 /\ o_min = 0 /\ o_base = 0 /\ o_joins = MaxOJoins
FIdle == f_old_shard_leaders = [g \in FSubgroup |-> NoId] /\ f_joined = [g \in FSubgroup |-> {}] /\ f_persistent = [g \in FSubgroup |-> FALSE] /\ f_pc = [n \in FNode |-> "done"] /\ f_sent = {} /\ f_wire = [a \in FNode |-> [b \in FNode |-> <<>>]] /\ f_wrote = [n \in FNode |-> FALSE] /\ f_got = [n \in FNode |-> {}]
YIdle == LIdle /\ NIdle /\ KIdle /\ TIdle /\ VIdle /\ WIdle /\ QIdle /\ EIdle /\ HIdle /\ OIdle /\ FIdle
XIdle == UIdle /\ RIdle /\ DIdle /\ SIdle /\ JIdle /\ YIdle
\* every part of the model before the leave model at rest
OldIdle == McIdle /\ GIdle /\ PIdle /\ UIdle /\ RIdle /\ DIdle /\ SIdle /\ JIdle

InitMC == McInit /\ GIdle /\ PIdle /\ XIdle
SpecMC == InitMC /\ [][McNext]_vars

SpecOrd == InitMC /\ [][OrdNext]_vars

SpecReplay == InitMC /\ [][ReplayNext]_vars

InitGMS == GInit /\ McIdle /\ PIdle /\ XIdle
SpecGMS == InitGMS /\ [][GNext]_vars

InitPart == PInit /\ McIdle /\ GIdle /\ XIdle
SpecPart == InitPart /\ [][PartNext]_vars

InitWin == McInit /\ UInit /\ GIdle /\ PIdle /\ RIdle /\ DIdle /\ SIdle /\ JIdle /\ YIdle
SpecWin == InitWin /\ [][WinNext]_vars

InitDeliver == DInit /\ McIdle /\ GIdle /\ PIdle /\ UIdle /\ RIdle /\ SIdle /\ JIdle /\ YIdle
SpecDeliver == InitDeliver /\ [][DeliverNext]_vars

InitSetup == SInit /\ McIdle /\ GIdle /\ PIdle /\ UIdle /\ RIdle /\ DIdle /\ JIdle /\ YIdle
SpecSetup == InitSetup /\ [][SetupNext]_vars

InitJoin == JInit /\ McIdle /\ GIdle /\ PIdle /\ UIdle /\ RIdle /\ DIdle /\ SIdle /\ YIdle
SpecJoin == InitJoin /\ [][JoinNext]_vars

InitLeave == LInit /\ OldIdle /\ NIdle /\ KIdle /\ TIdle /\ VIdle /\ WIdle /\ QIdle /\ EIdle /\ HIdle /\ OIdle /\ FIdle
SpecLeave == InitLeave /\ [][LeaveNext]_vars

(* -------------------- liveness of the view change --------------------- *)
\* the predicate thread of every process keeps evaluating its predicates and
\* the failure detector keeps reporting a broken connection, so a handler
\* that stays enabled runs; crashes and join requests are under no obligation
Fairness ==
    /\ \A n \in AllId, q \in AllId : WF_vars(ReportFailure(n, q))
    /\ \A n \in AllId :
        /\ WF_vars(NewSuspicion(n))
        /\ WF_vars(LeaderStartJoin(n))
        /\ WF_vars(RedirectJoinAttempt(n))
        /\ WF_vars(LeaderCommitChange(n))
        /\ WF_vars(AcknowledgeProposedChange(n))
        /\ WF_vars(StartMetaWedge(n))
        /\ WF_vars(TerminateEpoch(n))
        /\ WF_vars(SyncWithMembers(n))
        /\ WF_vars(GlobalMinReadyContinuation(n))
        /\ WF_vars(\E proceeds \in BOOLEAN : FinishViewChange(n, proceeds))
        /\ WF_vars(Install(n))
        /\ WF_vars(FinishSetup(n))

InitLive == GInit /\ min_members = 2 /\ McIdle /\ PIdle /\ XIdle
SpecLive == InitLive /\ [][GNext]_vars /\ Fairness

(* ====================== properties: multicast ========================= *)
\* the sequence numbers member n delivered in this view
DeliveredSet(n) == {delivered[n][k].seq : k \in 1..Len(delivered[n])}

\* sequence number q belongs to an application message that was multicast in
\* this view: written to the ring, or handed to the bulk transport
Originated(q) ==
    LET s == q % num_shard_senders
        p == (q \div num_shard_senders) + 1
    IN  /\ p <= Len(sent[s])
        /\ ~sent[s][p].null
        /\ sent[s][p].tr = "rdmc" =>
              Cardinality({r \in 1..p : sent[s][r].tr = "rdmc"}) <= rdmc_sent[s]

\* C1: any two members of the shard that both installed the next view
\* delivered exactly the same set of messages in the dying view (delivery
\* trigger and ragged-edge cleanup together).
C1_SameDeliveredSet ==
    \A a, b \in Node :
        (alive[a] /\ alive[b] /\ mcpc[a] = "installed" /\ mcpc[b] = "installed")
            => DeliveredSet(a) = DeliveredSet(b)

\* two members installed after delivering by the trigger and by the cleanup
C1_Witness ==
    \E a, b \in Node :
        /\ a # b /\ alive[a] /\ alive[b]
        /\ mcpc[a] = "installed" /\ mcpc[b] = "installed"
        /\ \E k \in 1..Len(delivered[a]) : delivered[a][k].how = "cleanup"
        /\ \E j \in 1..Len(delivered[b]) : delivered[b][j].how = "trigger"

\* C3 as stated: at every member deliveries are strictly increasing and
\* between two consecutive deliveries there is no multicast application
\* message of the view that stays undelivered.
C3_NoGap ==
    \A n \in Node : \A k \in 1..(Len(delivered[n]) - 1) :
        /\ delivered[n][k].seq < delivered[n][k + 1].seq
        /\ \A q \in (delivered[n][k].seq + 1)..(delivered[n][k + 1].seq - 1) :
            ~Originated(q)

\* C3 (amended): at every member deliveries are strictly increasing; the
\* delivery trigger never passes over a multicast message, and the ragged-edge
\* cleanup passes over a message only if its index lies beyond the
\* max_received_by_sender entry of its sender.
C3_GapOnlyBeyondTrim ==
    \A n \in Node : \A k \in 1..(Len(delivered[n]) - 1) :
        /\ delivered[n][k].seq < delivered[n][k + 1].seq
        /\ \A q \in (delivered[n][k].seq + 1)..(delivered[n][k + 1].seq - 1) :
            Originated(q) =>
                /\ delivered[n][k + 1].how = "cleanup"
                /\ (q \div num_shard_senders) > max_applied[n][q % num_shard_senders]

\* a member delivered by the trigger and then, in the cleanup, passed over a
\* multicast message beyond the trim
C3_Witness ==
    \E n \in Node : \E k \in 1..(Len(delivered[n]) - 1) :
        /\ delivered[n][1].how = "trigger"
        /\ delivered[n][k + 1].how = "cleanup"
        /\ \E q \in (delivered[n][k].seq + 1)..(delivered[n][k + 1].seq - 1) :
            Originated(q)

\* C4: the members that ran the ragged-edge cleanup and are still up applied
\* the same max_received_by_sender vector, also after the member that first
\* published global_min_ready stopped.
C4_SameTrim ==
    \A a, b \in Node :
        (alive[a] /\ alive[b] /\ max_applied[a] # <<>> /\ max_applied[b] # <<>>)
            => max_applied[a] = max_applied[b]

\* member 0 stopped while publishing global_min_ready: member 1 got it and
\* member 2 did not, and member 2 still finished the cleanup with a vector
C4_Witness ==
    /\ ~alive[0] /\ alive[1] /\ alive[2]
    /\ cache[1][0].global_min_ready /\ ~cache[2][0].global_min_ready
    /\ max_applied[1] # <<>> /\ max_applied[2] # <<>>
    /\ \E s \in Senders : max_applied[2][s] >= 0

\* C7 as stated: on every member's own row delivered_num <= seq_num.
C7_DeliveredLeSeq ==
    \A n \in Node : alive[n] => sst[n].delivered_num <= sst[n].seq_num

(* ===================== properties: view manager ======================= *)
\* process n runs the view manager of a view
InView(n) == gpc[n] \in {"run", "barrier", "handshake"} /\ curr_view[n].vid >= 0

\* C2: two members that installed a view with the same vid installed the same
\* ordered member list and the same joined and departed lists.
C2_SameViewPerVid ==
    \A a, b \in AllId :
        \A i \in 1..Len(installed[a]) : \A j \in 1..Len(installed[b]) :
            installed[a][i].vid = installed[b][j].vid =>
                /\ installed[a][i].members = installed[b][j].members
                /\ installed[a][i].joined = installed[b][j].joined
                /\ installed[a][i].departed = installed[b][j].departed

\* C5: at every member the vids of the views it installed one after the other
\* grow by exactly one; an initial member starts at vid 0.
C5_VidsIncreaseByOne ==
    \A n \in AllId :
        /\ (n \in GNode /\ installed[n] # <<>>) => installed[n][1].vid = 0
        /\ \A k \in 1..(Len(installed[n]) - 1) :
                installed[n][k + 1].vid = installed[n][k].vid + 1
        /\ installed[n] # <<>> =>
                curr_view[n].vid = installed[n][Len(installed[n])].vid

\* a member installed the next view after a terminate_epoch that was retried
C5_Witness ==
    \E n \in GNode :
        /\ Len(installed[n]) = 2
        /\ installed[n][2].joined # <<>> /\ installed[n][2].departed # <<>>
        /\ gpc[n] = "run"

C8_SurvivorsInstall ==
    \A q \in GNode :
        (gpc[q] = "gone") ~>
            (\A n \in GNode :
                \/ gpc[n] = "gone"
                \/ q \notin MemberSet(curr_view[n])
                \/ curr_view[n].vid = MaxVid)

(* ===================== properties: partition rule ===================== *)
\* C9 as stated: a round of new_suspicion at a member that has not left
\* throws the partition exception exactly when
\* num_failed - num_left >= ceiling((num_members - num_left + 1) / 2).
C9_CeilingRule ==
    [][(p_num_failed' # p_num_failed \/ p_thrown' # p_thrown) =>
        (p_thrown' <=>
            (~p_rip /\ 2 * (p_num_failed' - p_num_left)
                            >= p_num_members - p_num_left + 1))]_vars

\* C9 (amended): a round of new_suspicion at a member that has not left
\* throws the partition exception exactly when
\* num_failed - num_left >= floor((num_members - num_left + 1) / 2).
C9_FloorRule ==
    [][(p_num_failed' # p_num_failed \/ p_thrown' # p_thrown) =>
        (p_thrown' <=>
            (~p_rip /\ p_num_failed' - p_num_left
                            >= (p_num_members - p_num_left + 1) \div 2))]_vars

\* half of a view of four failed and the member threw
C9_Witness ==
    /\ p_thrown /\ ~p_rip
    /\ p_num_members = 4 /\ p_num_left = 0 /\ p_num_failed = 2

Undelivered(s, m) ==
    {j \in 0..(Len(sent[s]) - 1) :
        j * num_shard_senders + sender_rank(s) > sst[m].delivered_num}

\* C12: send assigns index i only while every shard member's delivered_num
\* (ORDERED) or num_received entry for the sender (UNORDERED) is within
\* window_size messages of i, and no sender ever has more than window_size of
\* its own messages undelivered (ORDERED) or unreceived (UNORDERED) at a
\* shard member.
C12_WindowBound ==
    /\ [](/\ \A s \in Senders, m \in Node :
                Cardinality(Undelivered(s, m)) <= window_size
          /\ \A m \in Node : (Len(u_sent) - 1) - u_nr[m] <= window_size)
    /\ [][/\ \A n \in Senders :
                (/\ Len(sent'[n]) = Len(sent[n]) + 1
                 /\ ~sent'[n][Len(sent'[n])].null) =>
                    \A i \in Node :
                        sst[i].delivered_num >=
                            (Len(sent[n]) - window_size) * num_shard_senders
                                + sender_rank(n)
           /\ Len(u_sent') > Len(u_sent) =>
                \A m \in Node : u_nr[m] >= Len(u_sent) - window_size]_vars

\* a sender used more indices than the window holds and the window is full
\* at a member
C12_Witness ==
    \E s \in Senders, m \in Node :
        /\ Len(sent[s]) > window_size
        /\ Cardinality(Undelivered(s, m)) = window_size
        /\ ~sent[s][Len(sent[s])].null

(* ================= properties: replay on the new engine =============== *)
\* the application messages member n's send accepted in the old view
Accepted(n) == {j \in 0..(Len(sent[n]) - 1) : ~sent[n][j + 1].null}

\* C13 as stated: at a sender that installed the next view, every message its
\* send accepted in the old view was either delivered in the old view or is
\* queued exactly once on the new engine, and never both.
C13_ReplayedExactlyOnce ==
    \A n \in Senders :
        (alive[n] /\ mcpc[n] = "installed") =>
            \A j \in Accepted(n) :
                LET was_delivered ==
                        (j * num_shard_senders + sender_rank(n)) \in DeliveredSet(n)
                    times_queued ==
                        Cardinality({k \in 1..Len(new_pending_sends[n]) :
                                        new_pending_sends[n][k] = j})
                IN  (IF was_delivered THEN 0 ELSE 1) = times_queued

(* ------------------------------ C14 ----------------------------------- *)
\* the messages the last delivery handed over, given delivered_num before it
Batch(before, after) == {q \in (before + 1)..after : q < Len(d_msgs)}

\* C14: a NULL message (header only, cooked_send false) gets neither the
\* stability callback nor make_version when it is delivered; a delivery whose
\* messages are all NULL requests no post_persist; and delivered_num still
\* moves to the sequence number the delivery ran to, NULL messages included.
C14_NullIsSilent ==
    /\ [](/\ \A k \in DOMAIN d_log :
                d_log[k].op \in {"global_stability_callback", "make_version"}
                    => ~IsNull(d_msgs[d_log[k].seq + 1])
          /\ d_delivered_num = d_upto)
    /\ [][(d_delivered_num' > d_delivered_num
            /\ \A q \in Batch(d_delivered_num, d_delivered_num') : IsNull(d_msgs[q + 1]))
          => \A k \in DOMAIN d_log' : d_log'[k].op # "post_persist"]_vars

\* a delivery of NULL messages alone made no upcall, though a stability
\* callback is registered, and delivered_num stands at the last of them
C14_Witness ==
    /\ d_stability
    /\ d_delivered_num >= 1
    /\ d_log = <<>>
    /\ IsNull(d_msgs[d_delivered_num + 1])
    /\ IsNull(d_msgs[d_delivered_num])

(* ------------------------------ C15 ----------------------------------- *)
\* the upcalls of the last delivery for the message with sequence number q
MsgUpcalls(q) ==
    LET at == {k \in DOMAIN d_log : d_log[k].seq = q /\ d_log[k].op # "post_persist"}
        order == SortedSeq(at)
    IN  [k \in 1..Len(order) |-> d_log[order[k]].op]

\* the messages with a payload that the last delivery handed over
Versioned ==
    {q \in 0..(Len(d_msgs) - 1) :
        /\ d_msgs[q + 1].payload
        /\ \E k \in DOMAIN d_log : d_log[k].seq = q /\ d_log[k].op = "make_version"}

\* the upcalls of one message are next to each other and messages come in
\* the order of their sequence numbers
OneMessageAtATime ==
    \A i, j \in DOMAIN d_log : i < j => d_log[i].seq <= d_log[j].seq

StabilityUpcall == IF d_stability THEN <<"global_stability_callback">> ELSE <<>>

NewVersions == SubSeq(d_versions', Len(d_versions) + 1, Len(d_versions'))

\* C16: a version assigned at delivery is pack(vid of the member's view, seq)
\* of the message; the versions a member assigns grow strictly in delivery
\* order, across views too, so no two deliveries share one; a member that
\* joined in view v assigns only versions whose vid half is v or later; and
\* unpack(pack(v, s)) = (v, s).
C16_VersionsIncrease ==
    /\ [](/\ \A i, j \in DOMAIN d_versions : i < j => d_versions[i] < d_versions[j]
          /\ \A i \in DOMAIN d_versions :
                /\ unpack_version(d_versions[i])[1] >= d_joined
                /\ unpack_version(d_versions[i])[1] <= d_vid
          /\ \A v \in 0..MaxDVid, s \in 0..(SeqRadix - 1) :
                unpack_version(combine_int32s(v, s)) = <<v, s>>)
    /\ [][/\ Len(d_versions') >= Len(d_versions)
          /\ SubSeq(d_versions', 1, Len(d_versions)) = d_versions
          /\ NewVersions = [k \in 1..(d_delivered_num' - d_delivered_num) |->
                                combine_int32s(d_vid, d_delivered_num + k)]]_vars

\* a member that joined in view 1 delivered in view 1 and again in view 2
C16_Witness ==
    /\ d_joined = 1
    /\ d_vid = 2
    /\ Len(d_versions) >= 2
    /\ unpack_version(d_versions[1])[1] = 1
    /\ unpack_version(d_versions[Len(d_versions)]) = <<2, d_delivered_num>>

(* ------------------------------ C17 ----------------------------------- *)
\* the view has the members the subgroup allocation asks for
Provisioned(v) == Len(v.members) >= min_members

\* member n runs terminate_epoch in this step and stays up
TerminatesEpoch(n) ==
    /\ gpc[n] = "run"
    /\ gpc'[n] # "gone"
    /\ \/ "is_meta_wedged" \in handles[n] /\ "is_meta_wedged" \notin handles'[n]
       \/ /\ "retry_next_view" \in handles[n]
          /\ \/ "retry_next_view" \notin handles'[n]
             \/ next_view'[n] # next_view[n]
             \/ retry_base'[n] # retry_base[n]

\* C17: a next view that is not adequately provisioned is never installed.
\* The member that computed it keeps its current view, has the predicates
\* for joins, acknowledgements and commits registered again and waits; it
\* computes the next view again only once the leader's num_committed went
\* beyond what it was, and only a view that is adequately provisioned gets
\* past terminate_epoch and is installed.
C17_InadequateNeverInstalled ==
    /\ [](\A n \in AllId :
            /\ \A k \in DOMAIN installed[n] : Provisioned(installed[n][k])
            /\ (gpc[n] \in {"barrier", "handshake"} /\ next_view[n] # NoView)
                    => Provisioned(next_view[n]))
    /\ [][\A n \in GNode : TerminatesEpoch(n) =>
            /\ next_view[n] # NoView =>
                    /\ ~Provisioned(next_view[n])
                    /\ RowOf(n, g_rank_of_leader(n)).num_committed > retry_base[n]
            /\ ~Provisioned(next_view'[n]) =>
                    /\ curr_view'[n] = curr_view[n]
                    /\ installed'[n] = installed[n]
                    /\ gpc'[n] = "run"
                    /\ {"start_join", "reject_join", "change_commit_ready",
                        "leader_proposed", "retry_next_view"} \subseteq handles'[n]
                    /\ retry_base'[n] = RowOf(n, g_rank_of_leader(n)).num_committed
            /\ Provisioned(next_view'[n]) => gpc'[n] = "barrier"]_vars

\* a member whose first next view was short of members computed an adequate
\* one after a further commit and went on to the barrier with it
C17_Witness ==
    \E n \in GNode :
        /\ min_members = 3
        /\ gpc[n] = "barrier"
        /\ retry_base[n] > 0
        /\ Provisioned(next_view[n])
        /\ next_view[n].joined # <<>>

(* ------------------------------ C18 ----------------------------------- *)
\* the joiners of the leader's view
ViewJoiners == {s_view[i] : i \in 1..Len(s_view)} \ {SLeader}

\* C18: in the initial setup the leader writes commit = true only for a view
\* it sent, in the same round, to every waiting joiner. When a write to a
\* joiner fails, that joiner is taken out of the view, every joiner that was
\* sent the view in the round is written commit = false, and the loop starts
\* over. So the first view of every joiner is the leader's view and holds no
\* joiner a send to which failed, and it is the last view the joiner read,
\* the one confirmed with commit = true.
C18_CommitOnlyFullySentView ==
    /\ [](/\ \A p \in SProc : \A k \in DOMAIN s_out[p] :
                (s_out[p][k].kind = "commit" /\ s_out[p][k].commit) =>
                    /\ s_pc = "decided"
                    /\ k = Len(s_out[p])
                    /\ k > 1
                    /\ \A q \in ViewJoiners :
                        /\ Len(s_out[q]) >= 2
                        /\ s_out[q][Len(s_out[q]) - 1] = ViewMsg(s_view)
                        /\ s_out[q][Len(s_out[q])] = CommitMsg(TRUE)
                    /\ p \in ViewJoiners
          /\ s_removed \cap ViewJoiners = {}
          /\ \A p \in SProc : s_jpc[p] = "confirmed" =>
                /\ s_pc = "decided"
                /\ s_jview[p] = s_view
                /\ s_read[p] = Len(s_out[p])
                /\ s_out[p][s_read[p] - 1] = ViewMsg(s_jview[p])
                /\ s_out[p][s_read[p]] = CommitMsg(TRUE))
    /\ [][s_removed' # s_removed =>
            /\ \A p \in SProc :
                s_out'[p] = IF p \in s_sent THEN Append(s_out[p], CommitMsg(FALSE))
                            ELSE s_out[p]
            /\ s_sent' = {}
            /\ s_waiting' = s_waiting \ s_removed'
            /\ s_pc' \in {"send", "accept"}
            /\ \A i \in 1..Len(s_view') : s_view'[i] \notin s_removed']_vars

\* a joiner that was told to drop a view, because the send to another joiner
\* failed, later read the leader's final view with commit = true
C18_Witness ==
    \E p \in SJoiner :
        /\ s_jpc[p] = "confirmed"
        /\ s_removed # {}
        /\ \E k \in DOMAIN s_out[p] : s_out[p][k] = CommitMsg(FALSE)
        /\ Len(s_jview[p]) = 3

(* ------------------------------ C19 ----------------------------------- *)
\* the leader takes a join request off pending_join_sockets in this step
HandlesJoin == Len(j_pending') < Len(j_pending)

\* the slot of changes[] the next proposal goes to
NextChange(row) == row.num_changes - row.num_installed

C20_JoinHeldAtCapacity ==
    [][(/\ j_leader = "run"
        /\ j_pending # <<>>
        /\ j_row.num_changes - j_row.num_committed = ChangesSize)
       => /\ j_leader' = "run"
          /\ j_client'[Head(j_pending)] \in {"asked", "accepted"}]_vars

(* ------------------------------ C21 ----------------------------------- *)
\* C21: when members leave gracefully and nobody fails, no member that
\* stays raises the partition exception, whatever the order in which the
\* suspected and rip flags of the leavers become visible to it.
C21_LeaveNeverPartitions == l_thrown = {}

InitSend == NInit /\ OldIdle /\ LIdle /\ KIdle /\ TIdle /\ VIdle /\ WIdle /\ QIdle /\ EIdle /\ HIdle /\ OIdle /\ FIdle
\* the calling thread keeps turning its loop, the sender thread and the
\* delivery keep running; nothing obliges the application to shut down
SpecSend == InitSend /\ [][SendNext]_vars
                     /\ WF_vars(NSendLoop) /\ WF_vars(NSenderThread) /\ WF_vars(NDeliver)

\* C22: a send whose payload_size + header_size exceeds max_msg_size is
\* rejected, that is the call returns (having assigned no index, taken no
\* buffer or ring slot and enqueued nothing)
C22_OversizeSendReturns ==
    (n_pc = "loop" /\ n_payload + header_size > max_msg_size) ~> (n_pc = "idle")

InitEpoch == KInit /\ OldIdle /\ LIdle /\ NIdle /\ TIdle /\ VIdle /\ WIdle /\ QIdle /\ EIdle /\ HIdle /\ OIdle /\ FIdle
SpecEpoch == InitEpoch /\ [][EpochNext]_vars

\* C23: the view write lock is held by the epoch termination only at the
\* install step, no blocking network I/O is done while it is held, and so no
\* reader of the view waits behind network I/O
C23_NoIOUnderWriteLock ==
    /\ k_write_lock => k_pc \notin KBlockingIO
    /\ k_reader = "waiting" => k_pc \notin KBlockingIO

\* every non-failed member of every ORDERED subgroup persisted what was delivered
OrderedPersisted ==
    \A g \in KSubgroup : \A m \in KMember \ k_failed :
        k_mode[g] = "ORDERED" =>
            persisted_seq_num(k_persisted_num[m][g]) >= k_delivered_num[g]

\* C24: finish_view_change does not run until, in every ORDERED subgroup,
\* every non-failed shard member's persisted_num has reached the local
\* delivered_num left by the ragged-edge cleanup; nothing else is waited
\* for, in particular no UNORDERED subgroup
C24_InstallAfterPersistence ==
    /\ k_pc \in {"fv_tcp", "fv_barrier"} => OrderedPersisted
    /\ (k_pc = "wait_persistence" /\ OrderedPersisted) => ENABLED KFinishViewChange \/ k_reader = "holding"

\* the install runs with messages delivered in an ORDERED and in an
\* UNORDERED subgroup, the latter not persisted
C24_Witness ==
    /\ k_pc = "fv_tcp"
    /\ \E g \in KSubgroup : k_mode[g] = "ORDERED" /\ k_delivered_num[g] >= 0
    /\ \E g \in KSubgroup : /\ k_mode[g] = "UNORDERED"
                            /\ k_delivered_num[g] >= 0
                            /\ k_persisted_num[KMe][g] = -1

InitRestart == TInit /\ OldIdle /\ LIdle /\ NIdle /\ KIdle /\ VIdle /\ WIdle /\ QIdle /\ EIdle /\ HIdle /\ OIdle /\ FIdle
SpecRestart == InitRestart /\ [][RestartNext]_vars

\* the version a log of shard sh is cut at
TrimVersion(sh) ==
    combine_int32s(t_vid, Max({t_logged_ragged_trim[sh][s] * num_shard_senders + s :
                               s \in Senders}))

\* C25: on a total restart a member saves every ragged trim it received,
\* only then truncates its log to exactly the latest version of its own
\* shard's trim, and only then starts its predicates; the restored members of
\* a shard then hold the same log, the log of the shard before the crash up
\* to the trim
C25_SaveTruncateThenRun ==
    \A m \in TMember :
        /\ t_pc[m] \in {"truncated", "running"} =>
              /\ t_disk_trim[m] = t_logged_ragged_trim
              /\ t_log[m] = {v \in t_before[my_shard(m)] : v <= TrimVersion(my_shard(m))}
        /\ t_pc[m] \in {"joined", "received"} => t_disk_trim[m] = NoTrim
        /\ t_pc[m] = "saved" => t_disk_trim[m] = t_logged_ragged_trim
        /\ \A o \in TShardMembers(my_shard(m)) :
              (t_pc[m] = "running" /\ t_pc[o] = "running") => t_log[m] = t_log[o]

\* both members of a shard run again, one of them after losing a tail of its
\* log, the other after receiving a log tail
C25_Witness ==
    /\ t_pc[0] = "running" /\ t_pc[1] = "running"
    /\ t_log[0] # t_before[0]
    /\ t_log[0] # {}
    /\ TrimVersion(0) # TrimVersion(1)

\* every message with a sequence number up to s was received at member n
ReceivedUpTo(n, s) ==
    \A q \in 0..s : (q \div num_shard_senders) <= sst[n].num_received[q % num_shard_senders]

\* C26: a member's seq_num is (min num_received + 1) * num_shard_senders +
\* argmin - 1, the largest sequence number up to which it received every
\* message, and no receipt on either path lowers it
C26_SeqNumIsContiguousPrefix ==
    /\ [](\A n \in Node :
            LET m == Min({sst[n].num_received[s] : s \in Senders})
                i == Min({s \in Senders : sst[n].num_received[s] = m})
            IN  /\ sst[n].seq_num = (m + 1) * num_shard_senders + i - 1
                /\ ReceivedUpTo(n, sst[n].seq_num)
                /\ ~ReceivedUpTo(n, sst[n].seq_num + 1))
    /\ [][\A n \in Node :
            (\A s \in Senders : sst'[n].num_received[s] >= sst[n].num_received[s])
                => sst'[n].seq_num >= sst[n].seq_num]_vars

\* one member received index 0 of the first sender only, another index 0 of
\* both senders
C26_Witness ==
    \E n, p \in Node :
        /\ sst[n].num_received[0] = 0 /\ sst[n].num_received[1] = -1
        /\ sst[n].seq_num = 0
        /\ sst[p].num_received[0] = 0 /\ sst[p].num_received[1] = 0
        /\ sst[p].seq_num = 1

InitResolve == VInit /\ OldIdle /\ LIdle /\ NIdle /\ KIdle /\ TIdle /\ WIdle /\ QIdle /\ EIdle /\ HIdle /\ OIdle /\ FIdle
SpecResolve == InitResolve /\ [][ResolveNext]_vars

\* the closed intervals of the list
Intervals(list) == {<<list[2 * j - 1], list[2 * j]>> : j \in 1..(Len(list) \div 2)}

\* C27: whatever the order in which distinct indices of one sender arrive,
\* resolve_num_received returns the largest k with all of 0..k received (-1
\* while index 0 is missing), and the list stays a sorted list of disjoint,
\* non-adjacent closed intervals, the first of which starts at -1
C27_ResolveCountsContiguousPrefix ==
    /\ v_returned = Max({k \in -1..MaxVIndex : \A i \in 0..k : i \in v_received})
    /\ Len(v_received_intervals) % 2 = 0
    /\ v_received_intervals[1] = -1
    /\ \A j \in 1..(Len(v_received_intervals) \div 2) :
          v_received_intervals[2 * j - 1] <= v_received_intervals[2 * j]
    /\ \A j \in 1..(Len(v_received_intervals) \div 2 - 1) :
          v_received_intervals[2 * j] + 1 < v_received_intervals[2 * j + 1]
    /\ v_received \cup {-1}
          = UNION {iv[1]..iv[2] : iv \in Intervals(v_received_intervals)}

\* an index arrives between two intervals and joins them, after later indices
\* arrived before earlier ones
C27_Witness ==
    /\ v_index = 1
    /\ v_received = {0, 1, 2, 3, 5}
    /\ v_returned = 3
    /\ v_received_intervals = <<-1, 3, 5, 5>>

(* ---------------- the NULL send scheme without failures ---------------- *)
\* sender n is the only one that sent application messages so far
OnlyAppSender(n) ==
    \A o \in Senders \ {n} : \A p \in 1..Len(sent[o]) : sent[o][p].null

\* an epoch without failures and view changes in which one sender sends
\* application messages, large and small ones mixed
NullNext ==
    \/ \E n \in Senders, tr \in {"sst", "rdmc"} :
          OnlyAppSender(n) /\ McSend(n, tr, MaxIndex + 1)
    \/ \E n \in Node : SendLoop(n)
    \/ \E n \in Node, s \in Senders : RdmcReceive(n, s)
    \/ \E n \in Node : ReceiverTrig(n)
    \/ \E n \in Node : DeliveryTrig(n)

\* a step of the sender thread, of a completion callback or of the predicate
\* thread of some member is possible (the guards of SendLoop, RdmcReceive,
\* ReceiverTrig and DeliveryTrig)
ProgressPossible ==
    \/ \E n \in Senders :
          /\ alive[n] /\ ~thread_shutdown[n]
          /\ rdmc_sent[n] < CountOf(sent[n], "rdmc")
          /\ LET index == IndexOfNth(sent[n], "rdmc", rdmc_sent[n])
             IN  /\ sst[n].num_received[n] >= index - 1
                 /\ \A i \in Node :
                       Row(n, i).delivered_num >=
                           (index - window_size) * num_shard_senders + sender_rank(n)
    \/ \E n \in Node, s \in Senders :
          alive[n] /\ ~thread_shutdown[n] /\ rdmc_got[n][s] < rdmc_sent[s]
    \/ \E n \in Node :
          alive[n] /\ ~thread_shutdown[n] /\ receiver_predicate(RecvState(n), n)
    \/ \E n \in Node :
          alive[n] /\ ~thread_shutdown[n] /\ Deliverable(n) # {}

\* the sender threads, the completion callbacks and the predicate threads
\* keep running: they never stay for ever with a step left to take. (Every
\* step uses up an index, so this is weak fairness of each of them, stated
\* on their guards.)
NullFair == []<>(~ProgressPossible)

SpecNull == InitMC /\ [][NullNext]_vars /\ NullFair

\* the highest index of sender r that member m received
HighestReceived(m, r) == received_intervals[m][r][Len(received_intervals[m][r])]

\* sender m has sent every index up to k
SentUpTo(m, k) == future_message_indices[m] >= k + 1

\* the application message with index i of sender n was sent
AppSent(n, i) == Len(sent[n]) > i /\ ~sent[n][i + 1].null

DeliveredAt(p, seq) == \E j \in 1..Len(delivered[p]) : delivered[p][j].seq = seq

\* C28 as stated: once sender m handled the receipt of index k from sender
\* r, it has sent every index up to k (m < r) or up to k - 1 (m > r)
C28_NullsFollowReceivedIndex ==
    \A m \in Senders : \A r \in Senders \ {m} :
        IF m < r THEN SentUpTo(m, HighestReceived(m, r))
        ELSE SentUpTo(m, HighestReceived(m, r) - 1)

\* C28: once sender m handled a receipt from sender r, it has sent every
\* index up to the contiguous count c of what it received from r (m < r) or
\* up to c - 1 (m > r); and with one sender of application messages every
\* such message is eventually delivered at all members
C28_NullsFollowContiguousCount ==
    /\ [](\A m \in Senders : \A r \in Senders \ {m} :
            IF m < r THEN SentUpTo(m, sst[m].num_received[r])
            ELSE SentUpTo(m, sst[m].num_received[r] - 1))
    /\ \A n \in Senders : \A i \in 0..MaxIndex :
          AppSent(n, i) ~> (\A p \in Node : DeliveredAt(p, i * num_shard_senders + n))

\* a small message overtook a large one of the same sender at another
\* sender, which answered with a NULL once the large one arrived
C28_Witness ==
    \E m \in Senders : \E r \in Senders \ {m} :
        /\ sst[m].num_received[r] = 1
        /\ sent[r][1].tr = "rdmc" /\ sent[r][2].tr = "sst"
        /\ Len(sent[m]) > 0 /\ sent[m][1].null
        /\ \A p \in Node : DeliveredAt(p, num_shard_senders + r)


(* ---------------- make_next_view: the next view ------------------------- *)
InitNextView == OldIdle /\ LIdle /\ NIdle /\ KIdle /\ TIdle /\ VIdle /\ QIdle /\ EIdle /\ HIdle /\ OIdle /\ FIdle /\ WInit
SpecNextView == InitNextView /\ [][NextViewNext]_vars

\* the committed changes the call read, the members among them and the rest
WCommitted == SubSeq(w_changes, 1, w_committed_count)
WLeavers == SeqToSet(WCommitted) \cap MemberSet(w_curr_view)
WStays(id) == id \notin WLeavers
WJoins(id) == id \notin MemberSet(w_curr_view)

\* C29: make_next_view returns a view with the next vid whose members are
\* the members that stay, in their old order, followed by the committed
\* joiners in the order of changes[0..committed); joined and departed list
\* exactly the joiners and the leavers; a member that stays keeps its
\* endpoint and its failed flag; the call throws iff the caller is a leaver
C29_NextViewAppliesCommittedChanges ==
    /\ w_pc = "returned" =>
        /\ w_next_view.vid = w_curr_view.vid + 1
        /\ w_next_view.members
              = SelectSeq(w_curr_view.members, WStays) \o SelectSeq(WCommitted, WJoins)
        /\ w_next_view.joined = SelectSeq(WCommitted, WJoins)
        /\ SeqToSet(w_next_view.departed) = WLeavers
        /\ Len(w_next_view.departed) = Cardinality(WLeavers)
        /\ \A old \in 1..Len(w_curr_view.members) :
              WStays(w_curr_view.members[old]) =>
                  LET new == 1 + rank_of(w_next_view, w_curr_view.members[old])
                  IN  /\ new >= 1
                      /\ w_next_view.member_ips_and_ports[new]
                            = w_curr_view.member_ips_and_ports[old]
                      /\ w_next_view.failed[new] = w_curr_view.failed[old]
        /\ \A new \in 1..Len(w_next_view.members) :
              WJoins(w_next_view.members[new]) => ~w_next_view.failed[new]
    /\ w_pc \in {"returned", "thrown"} =>
        ((w_pc = "thrown") <=> (w_curr_view.members[w_curr_view.my_rank + 1] \in WLeavers))

\* a call that returned a view one member left and one process joined, a
\* failed member stayed, and the members that stay are not in id order
C29_Witness ==
    /\ w_pc = "returned"
    /\ Len(w_next_view.departed) = 1
    /\ Len(w_next_view.joined) = 1
    /\ Len(w_next_view.members) = 3
    /\ w_next_view.members[1] > w_next_view.members[2]
    /\ w_next_view.failed[2]
    /\ w_curr_view.members[1] = w_next_view.departed[1]


(* ---------------- ragged-edge cleanup: the follower's trim -------------- *)
InitTrim == OldIdle /\ LIdle /\ NIdle /\ KIdle /\ TIdle /\ VIdle /\ WIdle /\ EIdle /\ HIdle /\ OIdle /\ FIdle /\ QInit
SpecTrim == InitTrim /\ [][TrimNext]_vars

\* the members that ran follower_ragged_edge_cleanup
QFollowed == {n \in QMember : q_leader[n] \notin {NoId, n}}

\* C30: a follower runs its ragged-edge cleanup only with global_min_ready of
\* its shard leader set in its table, and the global_min cells it copied,
\* the ones it put and the ones it delivers by are the cells in the
\* leader's own row, which the leader does not change once its flag is set
C30_FollowerTrimsByLeaderDecision ==
    /\ [](\A n \in QFollowed :
            LET decided == q_row[q_leader[n]]
            IN  /\ q_table[n][q_leader[n]].global_min_ready
                /\ decided.global_min_ready
                /\ q_table[n][q_leader[n]].global_min = decided.global_min
                /\ q_row[n].global_min = decided.global_min
                /\ \A m \in QMember : \A k \in 1..Len(q_wire[n][m]) :
                        q_wire[n][m][k].cells = "global_min"
                            => q_wire[n][m][k].value = decided.global_min
                /\ \A m \in QMember :
                        q_table[m][n].global_min_ready
                            => q_table[m][n].global_min = decided.global_min
                /\ q_trim[n] # NoTrimYet => q_trim[n] = decided.global_min)
    /\ [][\A m \in QMember :
            q_row[m].global_min_ready
                => /\ q_row'[m].global_min_ready
                   /\ q_row'[m].global_min = q_row[m].global_min]_vars

\* a follower delivered by a trim of the leader that is not what the cells
\* held before the leader wrote them, while another member has the
\* leader's cells and not yet its flag
C30_Witness ==
    /\ q_pc[1] = "cleaned" /\ q_leader[1] = 0
    /\ q_trim[1] = [s \in QSender |-> -1]
    /\ q_table[2][0].global_min = q_trim[1]
    /\ ~q_table[2][0].global_min_ready
    /\ q_pc[2] = "follower"


(* ---------------- the rows of the SST: who stores into them ------------- *)
InitRows == OldIdle /\ LIdle /\ NIdle /\ KIdle /\ TIdle /\ VIdle /\ WIdle /\ QIdle /\ HIdle /\ OIdle /\ FIdle /\ EInit
SpecRows == InitRows /\ [][RowsNext]_vars

\* C31: the local copy a member holds of another member's row changes only
\* when a row that member put is placed in it; the code of the local member
\* stores into its own row alone, row initialisation included
C31_OnlyOwnRowWritten ==
    [][\A n, m \in EMember :
        (m # n /\ e_table'[n][m] # e_table[n][m])
            => /\ e_wire[m][n] # <<>>
               /\ e_wire'[m][n] = Tail(e_wire[m][n])
               /\ e_table'[n][m] = Head(e_wire[m][n])]_vars


(* ---------------- a wedged engine originates nothing -------------------- *)
\* C32: once thread_shutdown is set at a member (wedge), the list of the
\* messages the member originated in the view, NULL messages included, does
\* not grow, also not while terminate_epoch drains the small-message ring
C32_NoMulticastOnceWedged ==
    [][\A n \in Senders :
        (alive[n] /\ thread_shutdown[n] /\ thread_shutdown'[n])
            => /\ sent'[n] = sent[n]
               /\ future_message_indices'[n] = future_message_indices[n]]_vars


(* ---------------- ViewManager::send while the view is wedged ------------ *)
InitVSend == OldIdle /\ LIdle /\ NIdle /\ KIdle /\ TIdle /\ VIdle /\ WIdle /\ QIdle /\ EIdle /\ OIdle /\ FIdle /\ HInit
\* a thread that holds the shared lock evaluates its predicate; a woken
\* thread that can find the engine of some new view not yet wedged
\* again and again does at some point retry on such an engine and has its
\* message handed over before that engine is wedged
VSendFair ==
    \A t \in HThread :
        /\ WF_vars(HTry(t))
        /\ SF_vars(HRetry(t) /\ ~h_wedged)
        /\ SF_vars(HTry(t) /\ ~h_wedged)
SpecVSend == InitVSend /\ [][VSendNext]_vars /\ VSendFair

AllWedgedAt(n) ==
    \A m \in MemberSet(curr_view[n]) :
        m \in curr_view[n].failed \/ RowOf(n, m).wedged

\* member n computes its next view in this step
ComputesNextView(n) ==
    /\ gpc[n] = "run"
    /\ next_view'[n] # next_view[n]
    /\ next_view'[n] # NoView

\* member n goes on to the drain of the ring and the barrier in this step
StartsDrain(n) == gpc[n] = "run" /\ gpc'[n] = "barrier"

\* member n publishes the result of the ragged-edge cleanup in this step
StartsCleanup(n) == ~gsst[n].global_min_ready /\ gsst'[n].global_min_ready

\* the trigger registered by start_meta_wedge runs at member n in this step
MetaWedgedContinuation(n) ==
    /\ "is_meta_wedged" \in handles[n]
    /\ "is_meta_wedged" \notin handles'[n]
    /\ gpc'[n] # "gone"

\* C34: a member computes the next view, starts the drain of the ring or
\* starts the ragged-edge cleanup only when every member it has not marked
\* failed has published wedged; the trigger of the meta-wedge predicate
\* runs at most once per view at a member: it runs only while no next view
\* was computed, and a computed next view stays until a view is installed
C34_TerminationAfterMetaWedge ==
    [][\A n \in AllId :
          /\ (ComputesNextView(n) \/ StartsDrain(n) \/ StartsCleanup(n))
                => AllWedgedAt(n)
          /\ MetaWedgedContinuation(n)
                => /\ next_view[n] = NoView
                   /\ next_view'[n] # NoView
                   /\ "leader_committed" \notin handles'[n]
          /\ (next_view[n] # NoView /\ gpc'[n] # "gone"
                  /\ curr_view'[n] = curr_view[n])
                => (next_view'[n] # NoView /\ "is_meta_wedged" \notin handles'[n])]_vars

\* a member computed its next view and waits at the barrier; nobody is
\* marked failed and all three members published wedged
C34_Witness ==
    \E n \in GNode :
        /\ gpc[n] = "barrier"
        /\ next_view[n] # NoView
        /\ curr_view[n].failed = {}
        /\ \A m \in GNode : gsst[m].wedged /\ curr_view[m].vid = 0


(* ---------------------- one entry per node id -------------------------- *)
\* C35: the view the leader has installed names no node id twice, also
\* after two clients that announce the same id were proposed in one epoch
C35_NoIdTwiceInView ==
    \A i, k \in 1..Len(j_view.members) :
        i # k => j_view.members[i] # j_view.members[k]


(* ------------------ the slot of a newly proposed change ----------------- *)
InitChanges == OldIdle /\ LIdle /\ NIdle /\ KIdle /\ TIdle /\ VIdle /\ WIdle /\ QIdle /\ EIdle /\ HIdle /\ FIdle /\ OInit
SpecChanges == InitChanges /\ [][ChangesNext]_vars

\* C36: when the leader proposes a change, for a join or for a failure, the
\* slot num_changes - num_installed it writes lies inside changes[]
C36_ChangeSlotInsideList ==
    [][o_row'.num_changes > o_row.num_changes
            => o_row.num_changes - o_row.num_installed < ChangesSize]_vars


(* -------------- a failure during the termination of an epoch ------------ *)
\* epoch termination has started at member n: start_meta_wedge ran, or the
\* next view was computed, and n has not installed it yet
TerminationStarted(n) ==
    /\ gpc[n] \in {"run", "barrier"}
    /\ curr_view[n].vid = 0
    /\ \/ "is_meta_wedged" \in handles[n]
       \/ next_view[n] # NoView

\* member q runs while some other running member terminates the epoch
RunsDuringTermination(q) ==
    /\ gpc[q] # "gone"
    /\ \E n \in GNode \ {q} : TerminationStarted(n)

\* every member that still runs has installed a next view
SurvivorsInstalled ==
    \A n \in GNode : gpc[n] = "gone" \/ curr_view[n].vid >= 1

\* C37: when a member stops after epoch termination has started at another
\* member, every member that keeps running still installs a next view (two
\* of the three members always remain)
C37_TerminationSurvivesFailure ==
    \A q \in GNode :
        [](RunsDuringTermination(q) => [](gpc[q] = "gone" => <>SurvivorsInstalled))


(* ------------------ state transfer comes to an end ---------------------- *)
InitTransfer == OldIdle /\ LIdle /\ NIdle /\ KIdle /\ TIdle /\ VIdle /\ WIdle /\ QIdle /\ EIdle /\ HIdle /\ OIdle /\ FInit
SpecTransfer == InitTransfer /\ [][TransferNext]_vars

\* node a is inside send_subgroup_object for node b and waits for the log
\* tail length of b, which b has not written
WaitsForLogTail(a, b) ==
    /\ f_pc[a] = "send"
    /\ FPendingSends(a) # <<>>
    /\ Head(FPendingSends(a))[2] = b
    /\ f_persistent[Head(FPendingSends(a))[1]]
    /\ f_wire[b][a] = <<>>

\* C38: no two nodes are each inside send_subgroup_object waiting for the
\* log tail length of the other
C38_NoMutualWaitForLogTail ==
    \A a, b \in FNode : ~(a # b /\ WaitsForLogTail(a, b) /\ WaitsForLogTail(b, a))


(* --------------- the sockets of the joiners at the install -------------- *)
\* C39: a leader that is about to run finish_view_change holds a proposed
\* join socket for every joiner of its next view, and the i-th socket is
\* the connection of the i-th joiner
C39_SocketForEveryJoiner ==
    \A n \in GNode :
        (gpc[n] = "run" /\ "persistence_finished" \in handles[n] /\ i_am_leader(n))
            => /\ Len(proposed_join_sockets[n]) >= Len(next_view[n].joined)
               /\ \A i \in 1..Len(next_view[n].joined) :
                    proposed_join_sockets[n][i] = next_view[n].joined[i]
====
